---- MODULE Spec2Model ----
(***************************************************************************)
(* Download orchestration core of telegram-auto-downloader (backend/).     *)
(*                                                                         *)
(* Three kinds of threads run the code:                                    *)
(*   - Flask request threads (SocketIO async_mode='threading') run the     *)
(*     control surface handlers api_retry, api_stop, api_delete and        *)
(*     api_download_url;                                                   *)
(*   - one asyncio loop thread runs every YtdlpDownloader.download         *)
(*     coroutine (the URL workers);                                        *)
(*   - the main thread runs the Telethon client and its handlers.          *)
(* A handler is a sequence of steps, one per access to shared state (the   *)
(* downloads table, the two registries, the bus, a subprocess); steps of   *)
(* different threads interleave.  A coroutine runs from one await to the   *)
(* next without another coroutine of its loop in between.                  *)
(***************************************************************************)
EXTENDS Integers, Sequences, FiniteSets, TLC

\* Bounds of the model: the number of requests the control surface receives (each
\* starts at most one URL worker) and the number of request threads of the server.
MaxRequests == 3
MaxThreads == 2

\* generate_uuid() results of the model and the chat message numbers that arrive.
UrlMid == <<"u", "-", "1">>
ChatMsgId == 7

Slots == 1..MaxRequests
Threads == 1..MaxThreads

\* None, for fields that hold numbers and for fields that hold text.
NoNum == -1
NoText == "None"

Terminal == {"done", "failed", "stopped"}

------------------------------------------------------------------------------
\* str(message_id) of a chat message number (backend/database: msg_id = str(message_id)).
Digit == [d \in 0..9 |-> CASE d = 0 -> "0" [] d = 1 -> "1" [] d = 2 -> "2" [] d = 3 -> "3"
                           [] d = 4 -> "4" [] d = 5 -> "5" [] d = 6 -> "6" [] d = 7 -> "7"
                           [] d = 8 -> "8" [] OTHER -> "9"]

Str(n) == IF n < 10 THEN <<Digit[n]>> ELSE <<Digit[n \div 10], Digit[n % 10]>>

\* int(message_id) of a numeric string.
DigitVal(c) == CHOOSE d \in 0..9 : Digit[d] = c

ToInt(s) == IF Len(s) = 1 THEN DigitVal(s[1]) ELSE 10 * DigitVal(s[1]) + DigitVal(s[2])

\* is_uuid = message_id and '-' in message_id
is_uuid(s) == \E i \in 1..Len(s) : s[i] = "-"

ChatMid == Str(ChatMsgId)

\* None as a message_id (a request body without the key).  Strings are sequences
\* of characters; this value is no string, its one element is not a character.
Null == <<"null">>
IsString(x) == \A i \in 1..Len(x) : x[i] \in {Digit[d] : d \in 0..9} \cup {"u", "-"}
Mids == {UrlMid, ChatMid}

------------------------------------------------------------------------------
VARIABLES
    store,          \* downloads table: message_id -> row (rows are never removed)
    next_id,        \* the table's autoincrement counter
    download_tasks, \* shared dict download_tasks: key -> 0 (no entry), the slot of
                    \* the worker whose future is stored, or Ended
    processes,      \* YtdlpDownloader.processes: message_id -> 0 or the slot of the
                    \* worker that spawned the stored process
    wpc,            \* per slot: where the download coroutine is
    wcancel,        \* per slot: "no", "requested" (future.cancel() called, the
                    \* CancelledError not yet raised in the coroutine), "delivered"
    wthrottle,      \* per slot: TRUE when now - last_update >= 1
    wproc,          \* per slot: state of the yt-dlp subprocess
    wwait,          \* per slot: the slot whose process the cancel handler waits for
    wargs,          \* per slot: the arguments download() was called with
    chat,           \* locals of safe_download and TelegramDownloader.last_broadcast
    threads,        \* per request thread: the handler it runs and its position
    nreq,           \* requests received so far
    emitted,        \* the event put on the bus by the last step (NoEvent if none)
    returned,       \* the response sent by the last step (NoReturn if none)
    lastStatus,     \* per message_id: last status announced on the bus
    quiet,          \* per message_id: status(stopped) or deleted was announced and
                    \* no status(downloading) since
    announced,      \* message_ids for which download:new was emitted
    stopReturned,   \* per message_id: a stop request returned success and no retry
                    \* has written the row since
    received,       \* the progress report a worker took in the last step (NoReport
                    \* if none), emitted or not
    fresh,          \* the slot of the worker whose progress event is the last one on
                    \* the bus and less than 1 second old; 0 if there is none
    main,           \* main(): its position, whether the chat credentials and the
                    \* session file exist, whether the Flask and loop threads run
    observers,      \* the clients connected to the socket; socketio.emit sends
                    \* every event to all of them
    call            \* the read request a client has sent and, once answered, its
                    \* response (NoCall if none)

storeVars == <<store, next_id>>
regVars == <<download_tasks, processes>>
workerVars == <<wpc, wcancel, wthrottle, wproc, wwait, wargs>>
threadVars == <<threads, nreq>>
monVars == <<lastStatus, quiet, announced, stopReturned>>
vars == <<store, next_id, download_tasks, processes, wpc, wcancel, wthrottle, wproc,
          wwait, wargs, chat, threads, nreq, emitted, returned, lastStatus, quiet,
          announced, stopReturned, received, fresh, main, observers, call>>

\* A future in download_tasks whose coroutine has ended (or never ran).
Ended == MaxRequests + 1

\* Keys of download_tasks: the uuid string of a URL job (ytdlp_handler: 479), the
\* integer message number of a chat job (telegram_handler: 271).  A Python int key
\* never equals a str key.
StrKey(s) == [type |-> "str", repr |-> s]
IntKey(n) == [type |-> "int", repr |-> Str(n)]
TaskKeys == {StrKey(UrlMid), IntKey(ChatMsgId), IntKey(ChatMsgId + 1)}

Exited == {"exit0", "exitErr", "exitTerm", "exitExt"}

NoEvent == [topic |-> "none", message_id |-> <<>>, status |-> NoText,
            progress |-> 0, downloaded_bytes |-> 0, total_bytes |-> 0]
NoReturn == [op |-> "none", message_id |-> <<>>, code |-> 0]
NoCall == [request |-> <<>>, response |-> <<>>, answered |-> TRUE]
NoReport == [slot |-> 0, info |-> <<>>]
NoChat == [attempt |-> 0, replied |-> FALSE, broadcast |-> TRUE, announces |-> 0]
Idle == [op |-> "idle", pc |-> "idle", message_id |-> <<>>, id |-> 0, fut |-> 0]
NoArgs == [url |-> NoText, message_id |-> <<>>]

------------------------------------------------------------------------------
\* The downloads table (backend/database).

Rows == DOMAIN store

\* Download(...) as add_download builds it.
NewRow(id, mid, status, progress, speed, error, downloaded, total, pending, url) ==
    [id |-> id, message_id |-> mid, status |-> status, progress |-> progress,
     speed |-> speed, error |-> error, downloaded_bytes |-> downloaded,
     total_bytes |-> total, pending_time |-> pending, is_deleted |-> FALSE,
     url |-> url]

\* An update that also sets the speed column to 0, whatever the patch names.
PatchAndIdle(row, patch) ==
    [f \in DOMAIN row |-> IF f \in DOMAIN patch THEN patch[f]
                          ELSE IF f = "speed" THEN 0 ELSE row[f]]

\* setattr(download, key, value) for every key of the patch; other columns keep
\* their values.
Patch(row, patch) ==
    [f \in DOMAIN row |-> IF f \in DOMAIN patch THEN patch[f] ELSE row[f]]

\* update_download_by_message_id: the first row with that message_id, if any.
update_download_by_message_id(st, mid, patch) ==
    IF mid \in DOMAIN st THEN [st EXCEPT ![mid] = Patch(st[mid], patch)] ELSE st

\* get_download_by_id: filter_by(id=download_id).first(), deleted rows included.
get_download_by_id(st, id) ==
    IF \E m \in DOMAIN st : st[m].id = id
    THEN {CHOOSE m \in DOMAIN st : st[m].id = id}
    ELSE {}

\* update_download_by_id
update_download_by_id(st, id, patch) ==
    [m \in DOMAIN st |-> IF st[m].id = id THEN Patch(st[m], patch) ELSE st[m]]

\* delete_download_by_message_id: soft delete.
delete_download_by_message_id(st, mid) ==
    IF mid \in DOMAIN st THEN [st EXCEPT ![mid].is_deleted = TRUE] ELSE st

\* get_download_by_message_id: filter_by(message_id=str(message_id)).first()
get_download_by_message_id(st, mid) == IF mid \in DOMAIN st THEN {mid} ELSE {}

\* get_all_downloads: the rows whose is_deleted is False or NULL.
get_all_downloads(st) == {m \in DOMAIN st : ~st[m].is_deleted}

\* WebApp.get_downloads_data with an empty search and a page that holds every
\* row: filter 'active' drops the rows that are done.
get_downloads_data(st, filter_type) ==
    IF filter_type = "active"
    THEN {m \in get_all_downloads(st) : st[m].status # "done"}
    ELSE get_all_downloads(st)

\* WebApp.get_stats: the counts over get_all_downloads.
get_stats(st) ==
    LET all_downloads == get_all_downloads(st)
    IN [total_count |-> Cardinality(all_downloads),
        downloaded_count |-> Cardinality({m \in all_downloads : st[m].status = "done"}),
        active_count |-> Cardinality({m \in all_downloads : st[m].status # "done"})]

\* add_download: session.add + commit.
add_download(st, row) ==
    [m \in DOMAIN st \cup {row.message_id} |->
        IF m = row.message_id THEN row ELSE st[m]]

------------------------------------------------------------------------------
\* The bus (socketio.emit) and the monitors that follow it.

StatusEvent(mid, status) == [NoEvent EXCEPT !.topic = "status", !.message_id = mid,
                                            !.status = status]
ProgressEvent(mid, progress, downloaded, total) ==
    [NoEvent EXCEPT !.topic = "progress", !.message_id = mid, !.progress = progress,
                    !.downloaded_bytes = downloaded, !.total_bytes = total]
NewEvent(mid) == [NoEvent EXCEPT !.topic = "new", !.message_id = mid,
                                 !.status = "downloading"]
DeletedEvent(mid) == [NoEvent EXCEPT !.topic = "deleted", !.message_id = mid]

Publish(ev) ==
    /\ emitted' = ev
    /\ lastStatus' = IF ev.topic \in {"status", "new"} /\ ev.message_id \in Mids
                     THEN [lastStatus EXCEPT ![ev.message_id] = ev.status]
                     ELSE lastStatus
    /\ quiet' = IF ev.message_id \in Mids
                THEN [quiet EXCEPT ![ev.message_id] =
                        CASE ev.topic = "deleted" -> TRUE
                          [] ev.topic = "status" /\ ev.status = "stopped" -> TRUE
                          [] ev.topic = "status" /\ ev.status = "downloading" -> FALSE
                          [] OTHER -> @]
                ELSE quiet
    /\ announced' = IF ev.topic = "new" THEN announced \cup {ev.message_id}
                    ELSE announced

Silent == /\ emitted' = NoEvent
          /\ UNCHANGED <<lastStatus, quiet, announced>>

\* A step that emits an event other than progress, and a step that emits nothing
\* and takes no progress report.
\* WebApp.emit_status / emit_deleted: str(message_id) if message_id else None
msg_id_str(message_id) == IF message_id \in {Null, <<>>} THEN Null ELSE message_id

Emit(ev) == Publish(ev) /\ received' = NoReport /\ UNCHANGED fresh

NoEmit == Silent /\ received' = NoReport /\ UNCHANGED fresh

\* A worker takes a progress report; with an event, that event is now the last
\* progress event on the bus.
Report(w, info, ev) ==
    /\ received' = [slot |-> w, info |-> info]
    /\ IF ev = NoEvent THEN Silent /\ UNCHANGED fresh
       ELSE Publish(ev) /\ fresh' = w

NoRet == returned' = NoReturn /\ UNCHANGED call

------------------------------------------------------------------------------
\* Output lines of the extractor and YtdlpDownloader.parse_progress.

\* "[download]  50.0% of 2.00KiB at 512.00KiB/s ETA 00:05" and
\* "[download] 100.0% of 4.00KiB at 512.00KiB/s ETA 00:00": the groups of
\* progress_pattern.
Line(pct, size, eta) == [kind |-> "progress", pct |-> pct, size |-> size, unit |-> "KiB",
                         rate |-> 512, rate_unit |-> "KiB", eta |-> eta]

ProgressLines == {Line(50, 2, <<0, 5>>), Line(100, 4, <<0, 0>>)}

\* "[download] 100% of 4KiB in 00:01" (no match of progress_pattern) and
\* "[download] x has already been downloaded".
CompleteLine == [kind |-> "complete"]
AlreadyLine == [kind |-> "already"]

unit_multipliers == [u \in {"KiB", "KB", "MiB", "MB"} |->
                        CASE u = "KiB" -> 1024 [] u = "KB" -> 1000
                          [] u = "MiB" -> 1024 * 1024 [] OTHER -> 1000 * 1000]

\* int(total_bytes * progress): the percentage taken for a fraction.
DownloadedOfFraction(total, progress) == total * progress

\* int(total_bytes * progress / 100)
DownloadedOf(total, progress) == (total * progress) \div 100

parse_progress(line) ==
    IF line.kind = "progress"
    THEN LET total_bytes == line.size * unit_multipliers[line.unit]
             speed_bytes == line.rate * unit_multipliers[line.rate_unit]
         IN [progress |-> line.pct,
             downloaded_bytes |-> DownloadedOf(total_bytes, line.pct),
             total_bytes |-> total_bytes,
             speed |-> speed_bytes \div 1024,
             pending_time |-> IF Len(line.eta) = 2
                              THEN line.eta[1] * 60 + line.eta[2]
                              ELSE line.eta[1] * 3600 + line.eta[2] * 60 + line.eta[3],
             complete |-> FALSE]
    ELSE [progress |-> 100, complete |-> TRUE]

\* The keyword arguments of the progress write (ytdlp_handler: 333-340).
ProgressPatch(info) ==
    [progress |-> info.progress, downloaded_bytes |-> info.downloaded_bytes,
     total_bytes |-> info.total_bytes, speed |-> info.speed,
     pending_time |-> info.pending_time]

DonePatch == [status |-> "done", progress |-> 100, speed |-> 0, pending_time |-> 0]
\* A failed write that leaves the speed column as the last progress line set it.
FailedPatchKeepSpeed(error) == [status |-> "failed", error |-> error]
FailedPatch(error) == [status |-> "failed", speed |-> 0, error |-> error]
StoppedPatch == [status |-> "stopped", speed |-> 0]

------------------------------------------------------------------------------
\* The subprocess and its asyncio transport.

\* Process.terminate() / kill(): a signal to a live process; on a process that has
\* exited, nothing while the transport still holds the Popen object, and
\* ProcessLookupError once the transport has been closed (_proc is None).
SignalOutcomes(p) == IF wproc[p] \in Exited THEN {"ok", "raise"} ELSE {"ok"}

Signalled(p) == IF wproc[p] = "running" THEN [wproc EXCEPT ![p] = "term"] ELSE wproc

\* The subprocess ends by itself: exit code 0 or an error code; after SIGTERM or
\* SIGKILL from the program it ends with the signal's code.
ProcExit(w) ==
    /\ UNCHANGED <<chat, main, observers>>
    /\ \/ wproc[w] = "running" /\ \E c \in {"exit0", "exitErr"} :
                                    wproc' = [wproc EXCEPT ![w] = c]
       \/ wproc[w] = "term" /\ wproc' = [wproc EXCEPT ![w] = "exitTerm"]
    /\ NoEmit /\ NoRet
    /\ UNCHANGED <<storeVars, regVars, wpc, wcancel, wthrottle, wwait, wargs, threadVars,
                   stopReturned>>

\* Another actor of the host kills the subprocess.
ExternalKill(w) ==
    /\ UNCHANGED <<chat, main, observers>>
    /\ wproc[w] = "running"
    /\ wproc' = [wproc EXCEPT ![w] = "exitExt"]
    /\ NoEmit /\ NoRet
    /\ UNCHANGED <<storeVars, regVars, wpc, wcancel, wthrottle, wwait, wargs, threadVars,
                   stopReturned>>

\* At least one second has passed since worker w's last_update.
Tick(w) ==
    /\ UNCHANGED <<chat, main, observers>>
    /\ (wpc[w] = "reading" /\ ~wthrottle[w]) \/ fresh = w
    /\ wthrottle' = [wthrottle EXCEPT ![w] = (wpc[w] = "reading") \/ @]
    /\ fresh' = IF fresh = w THEN 0 ELSE fresh
    /\ Silent /\ received' = NoReport /\ NoRet
    /\ UNCHANGED <<storeVars, regVars, wpc, wcancel, wproc, wwait, wargs, threadVars,
                   stopReturned>>

------------------------------------------------------------------------------
\* YtdlpDownloader.download, one coroutine per slot, on the asyncio loop thread.
\* Every worker of the model downloads the one URL job.

Awaiting == {"spawning", "reading"}

\* The loop resumes coroutine w only when no other coroutine is between two
\* awaits: the terminal write, its emit and the finally block have no await.
Running == {"wroteDone", "wroteFailed", "wroteStopped", "finally"}
LoopTurn(w) == main.loop /\ \A v \in Slots \ {w} : wpc[v] \notin Running

\* The coroutine is over.  With cleanup, its finally block has run:
\* processes.pop(message_id, None); download_tasks.pop(message_id, None).
EndWorker(w, mid, cleanup) ==
    /\ wpc' = [wpc EXCEPT ![w] = "free"]
    /\ wcancel' = [wcancel EXCEPT ![w] = "no"]
    /\ wthrottle' = [wthrottle EXCEPT ![w] = FALSE]
    /\ wwait' = [v \in Slots |-> IF v = w \/ wwait[v] = w THEN 0 ELSE wwait[v]]
    /\ wargs' = [wargs EXCEPT ![w] = NoArgs]
    /\ processes' = IF cleanup THEN [processes EXCEPT ![mid] = 0] ELSE processes
    /\ download_tasks' =
          LET popped == IF cleanup THEN [download_tasks EXCEPT ![StrKey(mid)] = 0]
                        ELSE download_tasks
          IN [k \in TaskKeys |-> IF popped[k] = w THEN Ended ELSE popped[k]]
    /\ threads' = [t \in Threads |-> IF threads[t].fut = w
                                      THEN [threads[t] EXCEPT !.fut = Ended]
                                      ELSE threads[t]]
    /\ UNCHANGED nreq

\* First step of the task.  A task cancelled before its first step never runs the
\* coroutine body.  Otherwise the code before the try block runs (routing lookup,
\* mkdir of the output folder), which may raise, and then the coroutine awaits
\* create_subprocess_exec.
WStart(w) ==
    /\ UNCHANGED <<chat, main, observers>>
    /\ wpc[w] = "scheduled"
    /\ LoopTurn(w)
    /\ \/ /\ wcancel[w] = "requested"
          /\ EndWorker(w, wargs[w].message_id, FALSE)
          /\ wproc' = [wproc EXCEPT ![w] = "none"]
       \/ /\ EndWorker(w, wargs[w].message_id, FALSE)       \* mkdir raises: no try block yet
          /\ wproc' = [wproc EXCEPT ![w] = "none"]
       \/ /\ wpc' = [wpc EXCEPT ![w] = "spawning"]
          /\ UNCHANGED <<wcancel, wthrottle, wwait, wargs, wproc, regVars, threadVars>>
    /\ NoEmit /\ NoRet
    /\ UNCHANGED <<storeVars, stopReturned>>

\* create_subprocess_exec returns: processes[message_id] = process; last_update = 0.
\* Or it raises (the binary is missing) and except Exception writes failed.
WSpawned(w) ==
    /\ UNCHANGED <<chat, main, observers>>
    /\ wpc[w] = "spawning"
    /\ LoopTurn(w)
    /\ \/ /\ wpc' = [wpc EXCEPT ![w] = "reading"]
          /\ wproc' = [wproc EXCEPT ![w] = "running"]
          /\ wthrottle' = [wthrottle EXCEPT ![w] = TRUE]
          /\ processes' = [processes EXCEPT ![wargs[w].message_id] = w]
          /\ UNCHANGED <<store, download_tasks>>
       \/ /\ wpc' = [wpc EXCEPT ![w] = "wroteFailed"]
          /\ store' = update_download_by_message_id(store, wargs[w].message_id,
                                                    FailedPatch("spawn error"))
          /\ UNCHANGED <<wproc, wthrottle, regVars>>
    /\ NoEmit /\ NoRet
    /\ UNCHANGED <<next_id, wcancel, wwait, wargs, threadVars, stopReturned>>

\* A line of output arrives while the throttle is open: a progress line is written
\* to the row and emitted; a line that parses as complete only resets last_update
\* (the continue skips the "already downloaded" test below it).
WLine(w, line) ==
    /\ UNCHANGED <<chat, main, observers>>
    /\ wpc[w] = "reading" /\ wproc[w] \in {"running", "term"}
    /\ LoopTurn(w)
    /\ LET info == parse_progress(line)
       IN IF wthrottle[w]
          THEN /\ wthrottle' = [wthrottle EXCEPT ![w] = FALSE]
               /\ IF info.complete
                  THEN /\ UNCHANGED store
                       /\ Report(w, info, NoEvent)
                  ELSE /\ store' = update_download_by_message_id(
                                      store, wargs[w].message_id, ProgressPatch(info))
                       /\ Report(w, info,
                                 ProgressEvent(wargs[w].message_id, info.progress,
                                               info.downloaded_bytes, info.total_bytes))
          ELSE /\ UNCHANGED <<wthrottle, store>>
               /\ Report(w, info, NoEvent)
    /\ NoRet
    /\ UNCHANGED <<next_id, regVars, wpc, wcancel, wproc, wwait, wargs, threadVars, stopReturned>>

\* "has already been downloaded" arrives while the throttle is closed: the row is
\* written done; the emit and the return follow in WEmit.
WAlready(w) ==
    /\ UNCHANGED <<chat, main, observers>>
    /\ wpc[w] = "reading" /\ wproc[w] \in {"running", "term"}
    /\ LoopTurn(w)
    /\ ~wthrottle[w]
    /\ wpc' = [wpc EXCEPT ![w] = "wroteDone"]
    /\ store' = update_download_by_message_id(store, wargs[w].message_id, DonePatch)
    /\ NoEmit /\ NoRet
    /\ UNCHANGED <<next_id, regVars, wcancel, wthrottle, wproc, wwait, wargs, threadVars,
                   stopReturned>>

\* End of output and process.wait(): returncode 0 writes done, any other writes
\* failed.
WEof(w) ==
    /\ UNCHANGED <<chat, main, observers>>
    /\ wpc[w] = "reading" /\ wproc[w] \in Exited
    /\ LoopTurn(w)
    /\ IF wproc[w] = "exit0"
       THEN /\ wpc' = [wpc EXCEPT ![w] = "wroteDone"]
            /\ store' = update_download_by_message_id(store, wargs[w].message_id, DonePatch)
       ELSE /\ wpc' = [wpc EXCEPT ![w] = "wroteFailed"]
            /\ store' = update_download_by_message_id(store, wargs[w].message_id,
                                                      FailedPatch("Download failed"))
    /\ NoEmit /\ NoRet
    /\ UNCHANGED <<next_id, regVars, wcancel, wthrottle, wproc, wwait, wargs, threadVars,
                   stopReturned>>

\* CancelledError is raised at the await the coroutine is suspended in.  The
\* handler signals processes[message_id], whichever worker stored it, and waits
\* for it; with no entry it writes stopped at once.
WCancelled(w) ==
    /\ UNCHANGED <<chat, main, observers>>
    /\ wpc[w] \in Awaiting /\ wcancel[w] = "requested"
    /\ LoopTurn(w)
    /\ wcancel' = [wcancel EXCEPT ![w] = "delivered"]
    /\ IF processes[wargs[w].message_id] = 0
       THEN /\ wpc' = [wpc EXCEPT ![w] = "wroteStopped"]
            /\ store' = update_download_by_message_id(store, wargs[w].message_id, StoppedPatch)
            /\ UNCHANGED <<wproc, wwait, wargs, wthrottle, regVars>>
       ELSE \E out \in SignalOutcomes(processes[wargs[w].message_id]) :
              IF out = "ok"
              THEN /\ wpc' = [wpc EXCEPT ![w] = "killwait"]
                   /\ wwait' = [wwait EXCEPT ![w] = processes[wargs[w].message_id]]
                   /\ wproc' = Signalled(processes[wargs[w].message_id])
                   /\ UNCHANGED <<store, wthrottle, wargs, regVars>>
              ELSE \* ProcessLookupError leaves the except block; finally runs
                   /\ wpc' = [wpc EXCEPT ![w] = "finally"]
                   /\ UNCHANGED <<store, wproc, wwait, wargs, wthrottle, regVars>>
    /\ NoEmit /\ NoRet
    /\ UNCHANGED <<next_id, threadVars, stopReturned>>

\* The process the cancel handler waits for has exited (its worker may be gone).
WaitOver(w) == IF wwait[w] = 0 THEN TRUE ELSE wproc[wwait[w]] \in Exited

\* wait_for(process.wait(), 5) returns, or times out and processes[message_id] is
\* killed (KeyError when another worker's finally has removed the entry).  Then
\* the row is written stopped.
WWaited(w) ==
    /\ UNCHANGED <<chat, main, observers>>
    /\ wpc[w] = "killwait"
    /\ LoopTurn(w)
    /\ \/ /\ WaitOver(w)
          /\ wpc' = [wpc EXCEPT ![w] = "wroteStopped"]
          /\ store' = update_download_by_message_id(store, wargs[w].message_id, StoppedPatch)
          /\ UNCHANGED wproc
       \/ /\ ~WaitOver(w)
          /\ IF processes[wargs[w].message_id] = 0
             THEN /\ wpc' = [wpc EXCEPT ![w] = "finally"]
                  /\ UNCHANGED <<store, wproc>>
             ELSE \E out \in SignalOutcomes(processes[wargs[w].message_id]) :
                    IF out = "ok"
                    THEN /\ wpc' = [wpc EXCEPT ![w] = "wroteStopped"]
                         /\ wproc' = Signalled(processes[wargs[w].message_id])
                         /\ store' = update_download_by_message_id(store, wargs[w].message_id,
                                                                   StoppedPatch)
                    ELSE /\ wpc' = [wpc EXCEPT ![w] = "finally"]
                         /\ UNCHANGED <<store, wproc>>
    /\ NoEmit /\ NoRet
    /\ UNCHANGED <<next_id, regVars, wcancel, wthrottle, wwait, wargs, threadVars, stopReturned>>

\* emit_status of the status just written, then the finally block.
WEmit(w) ==
    /\ UNCHANGED <<chat, main, observers>>
    /\ wpc[w] \in {"wroteDone", "wroteFailed", "wroteStopped"}
    /\ Emit(StatusEvent(wargs[w].message_id, CASE wpc[w] = "wroteDone" -> "done"
                                  [] wpc[w] = "wroteFailed" -> "failed"
                                  [] OTHER -> "stopped"))
    /\ EndWorker(w, wargs[w].message_id, TRUE)
    /\ wproc' = [wproc EXCEPT ![w] = "none"]
    /\ NoRet
    /\ UNCHANGED <<storeVars, stopReturned>>

\* The finally block after an exception that left the cancellation handler.
WFinally(w) ==
    /\ UNCHANGED <<chat, main, observers>>
    /\ wpc[w] = "finally"
    /\ EndWorker(w, wargs[w].message_id, TRUE)
    /\ wproc' = [wproc EXCEPT ![w] = "none"]
    /\ NoEmit /\ NoRet
    /\ UNCHANGED <<storeVars, stopReturned>>

------------------------------------------------------------------------------
\* The control surface (backend/web_app), one request per thread.

\* task.cancel() on an entry of download_tasks: a pending future is cancelled and
\* the cancellation is handed to the loop; a cancelled or finished one is left.
Cancel(handle) ==
    IF handle \in Slots /\ wcancel[handle] = "no"
    THEN [wcancel EXCEPT ![handle] = "requested"]
    ELSE wcancel

Return(t, op, mid, code) ==
    /\ threads' = [threads EXCEPT ![t] = Idle]
    /\ returned' = [op |-> op, message_id |-> mid, code |-> code]
    /\ UNCHANGED call

Goto(t, pc) == threads' = [threads EXCEPT ![t].pc = pc] /\ UNCHANGED nreq

\* A request arrives and gets a thread.
Begin(t) ==
    /\ main.flask
    /\ threads[t] = Idle
    /\ \A u \in Threads : threads[u] = Idle => t <= u
    /\ nreq < MaxRequests
    /\ nreq' = nreq + 1

\* token_required: a request without a bearer token, or with one that does not
\* decode or has expired, is answered 401 and the handler is not called.
Ops == {"list", "stats", "retry", "stop", "delete", "check", "start", "mappings"}

token_required(t, op) ==
    /\ UNCHANGED <<chat, main, observers>>
    /\ Begin(t)
    /\ Return(t, op, Null, 401)
    /\ NoEmit
    /\ UNCHANGED <<storeVars, regVars, workerVars, stopReturned>>

\* api_stop and api_delete begin alike.  URL job: stop_download signals the
\* stored process.  Chat job: the task stored under int(message_id) is cancelled
\* if it is not done; api_delete then also writes stopped and pops the key.
CancelBegin(t, op, mid) ==
    /\ UNCHANGED <<chat, main, observers>>
    /\ Begin(t)
    /\ mid \in Rows \cup {Null}
    /\ IF is_uuid(mid)
       THEN /\ IF processes[mid] = 0
               THEN /\ threads' = [threads EXCEPT ![t] =
                                     [Idle EXCEPT !.op = op, !.pc = "cancel",
                                                  !.message_id = mid]]
                    /\ NoRet
                    /\ UNCHANGED wproc
               ELSE \E out \in SignalOutcomes(processes[mid]) :
                      IF out = "ok"
                      THEN /\ threads' = [threads EXCEPT ![t] =
                                            [Idle EXCEPT !.op = op, !.pc = "cancel",
                                                         !.message_id = mid]]
                           /\ wproc' = Signalled(processes[mid])
                           /\ NoRet
                      ELSE /\ Return(t, op, mid, 500)
                           /\ UNCHANGED wproc
            /\ UNCHANGED <<store, wcancel, download_tasks>>
       ELSE LET telegram_id == IntKey(ToInt(mid))     \* used when mid is a string
                task == IF mid = Null THEN 0 ELSE download_tasks[telegram_id]
                live == task \in Slots
            IN /\ wcancel' = Cancel(task)
               /\ store' = IF op = "delete" /\ live
                           THEN update_download_by_message_id(store, mid, StoppedPatch)
                           ELSE store
               /\ download_tasks' = IF op = "delete" /\ mid # Null
                                    THEN [download_tasks EXCEPT ![telegram_id] = 0]
                                    ELSE download_tasks
               /\ threads' = [threads EXCEPT ![t] =
                                 [Idle EXCEPT !.op = op, !.pc = "write",
                                              !.message_id = mid]]
               /\ NoRet
               /\ UNCHANGED wproc
    /\ NoEmit
    /\ UNCHANGED <<next_id, processes, wpc, wthrottle, wwait, wargs, stopReturned>>

\* stop_download's task.cancel() and the handler's own; api_delete also pops.
CancelTask(t) ==
    /\ UNCHANGED <<chat, main, observers>>
    /\ threads[t].pc = "cancel"
    /\ LET key == StrKey(threads[t].message_id)
       IN /\ wcancel' = Cancel(download_tasks[key])
          /\ download_tasks' = IF threads[t].op = "delete"
                               THEN [download_tasks EXCEPT ![key] = 0]
                               ELSE download_tasks
    /\ Goto(t, "write")
    /\ NoEmit /\ NoRet
    /\ UNCHANGED <<storeVars, processes, wpc, wthrottle, wproc, wwait, wargs, stopReturned>>

\* api_stop: db.update_download_by_message_id(message_id, status='stopped', speed=0)
StopWrite(t) ==
    /\ UNCHANGED <<chat, main, observers>>
    /\ threads[t].op = "stop" /\ threads[t].pc = "write"
    /\ store' = update_download_by_message_id(store, threads[t].message_id,
                                              StoppedPatch)
    /\ Goto(t, "emit")
    /\ NoEmit /\ NoRet
    /\ UNCHANGED <<next_id, regVars, workerVars, stopReturned>>

\* api_stop: emit_status(message_id, 'stopped'); return {"status": "stopped"}
StopEmit(t) ==
    /\ UNCHANGED <<chat, main, observers>>
    /\ threads[t].op = "stop" /\ threads[t].pc = "emit"
    /\ Emit(StatusEvent(msg_id_str(threads[t].message_id), "stopped"))
    /\ Return(t, "stop", threads[t].message_id, 200)
    /\ stopReturned' = [m \in Mids |-> m = threads[t].message_id \/ stopReturned[m]]
    /\ UNCHANGED <<storeVars, regVars, workerVars, nreq>>

\* api_delete: soft delete, emit_deleted, return {"status": "deleted"}
DeleteWrite(t) ==
    /\ UNCHANGED <<chat, main, observers>>
    /\ threads[t].op = "delete" /\ threads[t].pc = "write"
    /\ store' = delete_download_by_message_id(store, threads[t].message_id)
    /\ Emit(DeletedEvent(msg_id_str(threads[t].message_id)))
    /\ Return(t, "delete", threads[t].message_id, 200)
    /\ UNCHANGED <<next_id, regVars, workerVars, stopReturned, nreq>>

api_stop(t, mid) == CancelBegin(t, "stop", mid)
api_delete(t, mid) == CancelBegin(t, "delete", mid)

\* Row ids a client may name in a retry, and the filesize a client may send.
RowIds == 1..Cardinality(Mids)
FileSizes == {0, 4096}
Url == "https://example.site/v/abc"

\* api_retry reads the row by id; only a failed or stopped row goes on.
api_retry(t, id) ==
    /\ UNCHANGED <<chat, main, observers>>
    /\ Begin(t)
    /\ LET found == get_download_by_id(store, id)
       IN IF found # {} /\ \A m \in found : store[m].status \in {"failed", "stopped"}
          THEN /\ threads' = [threads EXCEPT ![t] =
                                [Idle EXCEPT !.op = "retry", !.pc = "update", !.id = id,
                                   !.message_id = CHOOSE m \in found : TRUE]]
               /\ NoRet
          ELSE Return(t, "retry", <<>>, 200)
    /\ NoEmit
    /\ UNCHANGED <<storeVars, regVars, workerVars, stopReturned>>

\* Updates that treat the two kinds of job the other way round: a URL job's
\* progress reset, a chat job's progress kept.
RetryUrlPatchReset == [status |-> "downloading", progress |-> 0, speed |-> 0,
                       error |-> NoText]
RetryChatPatchKeep == [status |-> "downloading", speed |-> 0, error |-> NoText]

\* The keyword arguments of api_retry's two updates.
RetryUrlPatch == [status |-> "downloading", speed |-> 0, error |-> NoText]
RetryChatPatch == [status |-> "downloading", progress |-> 0, speed |-> 0,
                   error |-> NoText]

\* URL job: status='downloading', speed=0, error=None, progress kept.  Chat job
\* (url is None): progress=0 as well, and the handler returns.
RetryUpdate(t) ==
    /\ UNCHANGED <<chat, main, observers>>
    /\ threads[t].op = "retry" /\ threads[t].pc = "update"
    /\ LET mid == threads[t].message_id
       IN /\ IF store[mid].url # NoText
             THEN /\ store' = update_download_by_id(store, threads[t].id, RetryUrlPatch)
                  /\ Goto(t, "schedule")
                  /\ NoRet
             ELSE /\ store' = update_download_by_id(store, threads[t].id, RetryChatPatch)
                  /\ Return(t, "retry", mid, 200)
          /\ Emit(StatusEvent(mid, "downloading"))
          /\ stopReturned' = [stopReturned EXCEPT ![mid] = FALSE]
    /\ UNCHANGED <<next_id, regVars, workerVars, nreq>>

\* asyncio.run_coroutine_threadsafe(self.ytdlp_downloader.download(...), loop)
Schedule(t) ==
    /\ UNCHANGED <<chat, main, observers>>
    /\ threads[t].pc = "schedule"
    /\ \E w \in Slots :
         /\ wpc[w] = "free"
         /\ \A v \in Slots : wpc[v] = "free" => w <= v
         /\ wpc' = [wpc EXCEPT ![w] = "scheduled"]
         /\ wargs' = [wargs EXCEPT ![w] = [url |-> store[threads[t].message_id].url,
                                            message_id |-> threads[t].message_id]]
         /\ threads' = [threads EXCEPT ![t].pc = "register", ![t].fut = w]
    /\ NoEmit /\ NoRet /\ UNCHANGED nreq
    /\ UNCHANGED <<storeVars, regVars, wcancel, wthrottle, wproc, wwait, stopReturned>>

\* self.download_tasks[message_id] = future, and the handler returns.
Register(t) ==
    /\ UNCHANGED <<chat, main, observers>>
    /\ threads[t].pc = "register"
    /\ download_tasks' = [download_tasks EXCEPT ![StrKey(threads[t].message_id)] =
                             threads[t].fut]
    /\ Return(t, threads[t].op, threads[t].message_id, 200)
    /\ NoEmit
    /\ UNCHANGED <<storeVars, processes, workerVars, stopReturned, nreq>>

\* api_download_url -> YtdlpDownloader.start_download: message_id =
\* generate_uuid(), add_download, emit_new_download; the coroutine is scheduled
\* and registered by Schedule and Register.
start_download(t, filesize) ==
    /\ UNCHANGED <<chat, main, observers>>
    /\ Begin(t)
    /\ UrlMid \notin Rows
    /\ store' = add_download(store, NewRow(next_id, UrlMid, "downloading", 0, 0,
                                           NoText, 0, filesize, NoNum, Url))
    /\ next_id' = next_id + 1
    /\ threads' = [threads EXCEPT ![t] =
                     [Idle EXCEPT !.op = "start", !.pc = "schedule",
                                  !.message_id = UrlMid]]
    /\ Emit(NewEvent(UrlMid))
    /\ NoRet
    /\ UNCHANGED <<regVars, workerVars, stopReturned>>

------------------------------------------------------------------------------
\* Chat intake (TelegramDownloader._handle_new_file), on the main thread.  The row
\* is added with message_id = str(event.id) and download:new is emitted; then
\* emit_new_download imports get_web_app from backend.web_app, which defines no
\* such name: the ImportError leaves the handler before the task is created.
handle_new_file ==
    /\ UNCHANGED <<chat, main, observers>>
    /\ main.pc = "listening"
    /\ ChatMid \notin Rows
    /\ store' = add_download(store, NewRow(next_id, Str(ChatMsgId), "downloading", 0, 0,
                                           NoText, 0, 0, NoNum, NoText))
    /\ next_id' = next_id + 1
    /\ Emit(NewEvent(Str(ChatMsgId)))
    /\ NoRet
    /\ UNCHANGED <<regVars, workerVars, threadVars, stopReturned>>

------------------------------------------------------------------------------
\* TelegramDownloader.safe_download, the chat worker, taken on its own: a task on
\* the Telethon loop, stored in download_tasks under the integer message number.
\* chat.attempt is the loop variable, chat.replied says whether
\* entry["_status_msg_id"] is set, chat.broadcast whether now - last_broadcast >= 1,
\* chat.announces counts the worker's emit_status calls.

MAX_RETRIES == 6

ChatSlot == 1

\* range(1, MAX_RETRIES) and range(1, MAX_RETRIES + 1)
AttemptsShort == 1..(MAX_RETRIES - 1)
Attempts == 1..MAX_RETRIES

\* progress_callback(current, total) as Telethon calls it: with the size of the
\* file, and with total = 0 for a file whose size is not known.
ChatReports == {[current |-> 2048, total |-> 4096], [current |-> 2048, total |-> 0]}

\* A callback of a file of unknown size.
Unsized(r) == "total" \in DOMAIN r /\ r.total = 0

\* str(e) of the exceptions that end an attempt: the ImportError of emit_progress,
\* a failure of download_media, and the ZeroDivisionError of current / total.
ImportErrorText == "cannot import name 'get_web_app' from 'backend.web_app'"
MediaErrorText == "Connection lost"
ZeroDivisionText == "division by zero"

\* f"Attempt {attempt}/{MAX_RETRIES} failed: {str(e)}"
error_msg(attempt, e) ==
    "Attempt " \o Digit[attempt] \o "/" \o Digit[MAX_RETRIES] \o " failed: " \o e

\* The progress write of progress_callback, one second after the last call with
\* last_bytes = 0: speed in KB/s, pending_time = remaining / (speed * 1024).
ChatProgressPatch(r) ==
    LET speed == (r.current \div 1024) \div 1
    IN [progress |-> (r.current * 100) \div r.total,
        downloaded_bytes |-> r.current, total_bytes |-> r.total, speed |-> speed,
        pending_time |-> IF speed > 0 THEN (r.total - r.current) \div (speed * 1024)
                         ELSE NoNum]

\* The update after the last attempt.
ChatFailedPatch == [status |-> "failed", speed |-> 0, pending_time |-> NoNum]

ChatFrame == UNCHANGED <<next_id, processes, wthrottle, wproc, wwait, nreq, stopReturned,
                         main, observers>>

\* await event.reply(...) returns, or raises and the except Exception block
\* clears _status_msg_id; the first attempt starts.
CReply ==
    /\ wpc[ChatSlot] = "c_reply"
    /\ \E ok \in BOOLEAN : chat' = [chat EXCEPT !.replied = ok, !.attempt = 1]
    /\ wpc' = [wpc EXCEPT ![ChatSlot] = "c_download"]
    /\ NoEmit /\ NoRet /\ ChatFrame
    /\ UNCHANGED <<store, download_tasks, wcancel, wargs, threads>>

\* download_media calls progress_callback.  With total = 0 the division
\* current / total raises before anything is written.  Otherwise the row is
\* written; when the throttle of emit_progress is open the event is emitted and
\* the import of get_web_app raises.  An exception ends the attempt in the except
\* Exception block.
CProgress(r) ==
    /\ wpc[ChatSlot] = "c_download"
    /\ LET written == update_download_by_message_id(store, ChatMid, ChatProgressPatch(r))
           p == ChatProgressPatch(r)
       IN IF Unsized(r)
          THEN /\ Report(ChatSlot, r, NoEvent)
               /\ store' = update_download_by_message_id(store, ChatMid,
                               [error |-> error_msg(chat.attempt, ZeroDivisionText)])
               /\ wpc' = [wpc EXCEPT ![ChatSlot] = "c_sleep"]
               /\ UNCHANGED chat
          ELSE IF chat.broadcast
          THEN /\ Report(ChatSlot, p,
                         ProgressEvent(ChatMid, p.progress, p.downloaded_bytes,
                                       p.total_bytes))
               /\ chat' = [chat EXCEPT !.broadcast = FALSE]
               /\ store' = update_download_by_message_id(written, ChatMid,
                               [error |-> error_msg(chat.attempt, ImportErrorText)])
               /\ wpc' = [wpc EXCEPT ![ChatSlot] = "c_sleep"]
          ELSE /\ Report(ChatSlot, p, NoEvent)
               /\ store' = written
               /\ UNCHANGED <<chat, wpc>>
    /\ NoRet /\ ChatFrame
    /\ UNCHANGED <<download_tasks, wcancel, wargs, threads>>

\* download_media raises: the except Exception block writes the error text.
CFail ==
    /\ wpc[ChatSlot] = "c_download"
    /\ store' = update_download_by_message_id(store, ChatMid,
                    [error |-> error_msg(chat.attempt, MediaErrorText)])
    /\ wpc' = [wpc EXCEPT ![ChatSlot] = "c_sleep"]
    /\ NoEmit /\ NoRet /\ ChatFrame
    /\ UNCHANGED <<chat, download_tasks, wcancel, wargs, threads>>

\* download_media returns: the final update.
CDone ==
    /\ wpc[ChatSlot] = "c_download"
    /\ store' = update_download_by_message_id(store, ChatMid, DonePatch)
    /\ wpc' = [wpc EXCEPT ![ChatSlot] = "c_wroteDone"]
    /\ NoEmit /\ NoRet /\ ChatFrame
    /\ UNCHANGED <<chat, download_tasks, wcancel, wargs, threads>>

\* asyncio.sleep(5) is over: the next attempt of the loop, or after the last one
\* the update to failed.
CSlept ==
    /\ wpc[ChatSlot] = "c_sleep"
    /\ IF chat.attempt + 1 \in Attempts
       THEN /\ chat' = [chat EXCEPT !.attempt = @ + 1]
            /\ wpc' = [wpc EXCEPT ![ChatSlot] = "c_download"]
            /\ UNCHANGED store
       ELSE /\ store' = update_download_by_message_id(store, ChatMid, ChatFailedPatch)
            /\ wpc' = [wpc EXCEPT ![ChatSlot] = "c_wroteFailed"]
            /\ UNCHANGED <<chat, main, observers>>
    /\ NoEmit /\ NoRet /\ ChatFrame
    /\ UNCHANGED <<download_tasks, wcancel, wargs, threads>>

\* One second has passed since last_broadcast.
CTick ==
    /\ wpc[ChatSlot] \in {"c_download", "c_sleep"} /\ ~chat.broadcast
    /\ chat' = [chat EXCEPT !.broadcast = TRUE]
    /\ fresh' = 0
    /\ Silent /\ received' = NoReport /\ NoRet /\ ChatFrame
    /\ UNCHANGED <<store, download_tasks, wpc, wcancel, wargs, threads>>

\* CancelledError is raised at the await the task is suspended in.  Inside the
\* try block (download_media, the edit of the status message after done) the
\* except CancelledError block writes stopped.  At event.reply and at
\* asyncio.sleep(5), which is inside the except Exception block, nothing catches
\* it and the task ends.
CCancelled ==
    /\ wcancel[ChatSlot] = "requested"
    /\ wpc[ChatSlot] \in {"c_reply", "c_download", "c_sleep", "c_editing"}
    /\ IF wpc[ChatSlot] \in {"c_download", "c_editing"}
       THEN /\ store' = update_download_by_message_id(store, ChatMid, StoppedPatch)
            /\ wpc' = [wpc EXCEPT ![ChatSlot] = "c_wroteStopped"]
            /\ wcancel' = [wcancel EXCEPT ![ChatSlot] = "delivered"]
            /\ UNCHANGED <<download_tasks, wargs, threads, wthrottle, wwait,
                           processes, nreq>>
       ELSE /\ EndWorker(ChatSlot, ChatMid, FALSE)
            /\ UNCHANGED store
    /\ NoEmit /\ NoRet
    /\ UNCHANGED <<chat, next_id, wproc, stopReturned, main, observers>>

\* emit_status of the status just written.  After done the status message is
\* edited inside the try block; after stopped and failed the task ends.
CEmit ==
    /\ wpc[ChatSlot] \in {"c_wroteDone", "c_wroteFailed", "c_wroteStopped"}
    /\ Emit(StatusEvent(ChatMid, CASE wpc[ChatSlot] = "c_wroteDone" -> "done"
                                    [] wpc[ChatSlot] = "c_wroteFailed" -> "failed"
                                    [] OTHER -> "stopped"))
    /\ chat' = [chat EXCEPT !.announces = @ + 1]
    /\ IF wpc[ChatSlot] = "c_wroteDone" /\ chat.replied
       THEN /\ wpc' = [wpc EXCEPT ![ChatSlot] = "c_editing"]
            /\ UNCHANGED <<download_tasks, wcancel, wargs, threads, wthrottle, wwait,
                           processes, nreq>>
       ELSE EndWorker(ChatSlot, ChatMid, FALSE)
    /\ NoRet
    /\ UNCHANGED <<storeVars, wproc, stopReturned, main, observers>>

\* edit_status_message(event, entry, "Downloaded") returns and so does the task.
CEdited ==
    /\ wpc[ChatSlot] = "c_editing"
    /\ EndWorker(ChatSlot, ChatMid, FALSE)
    /\ NoEmit /\ NoRet
    /\ UNCHANGED <<chat, storeVars, wproc, stopReturned, main, observers>>

------------------------------------------------------------------------------
\* The list request (GET /api/downloads -> WebApp.get_downloads_data).  Here the
\* table is a sequence of rows, row i having id i.

MaxRows == 3
MaxPage == 2

\* str.lower() over the letters of the model.
lower(s) == [i \in 1..Len(s) |-> CASE s[i] = "A" -> "a" [] s[i] = "B" -> "b" [] OTHER -> s[i]]

\* query in file
Contains(s, q) == \E i \in 0..(Len(s) - Len(q)) : SubSeq(s, i + 1, i + Len(q)) = q

\* Python's order of strings: by character, a prefix first.
CharRank(c) == CASE c = "A" -> 1 [] c = "B" -> 2 [] c = "a" -> 3 [] OTHER -> 4

RECURSIVE StrLeq(_, _)
StrLeq(s, t) ==
    IF s = <<>> THEN TRUE
    ELSE IF t = <<>> THEN FALSE
    ELSE IF s[1] = t[1] THEN StrLeq(Tail(s), Tail(t))
    ELSE CharRank(s[1]) < CharRank(t[1])

\* The order of the status words as strings.
StatusRank(st) == CASE st = "done" -> 1 [] st = "downloading" -> 2 [] st = "failed" -> 3
                    [] OTHER -> 4

\* key(x) <= key(y) for the key functions of sorted() and of order_by.
KeyLeq(sort_by, x, y) ==
    CASE sort_by = "created_at" -> x.created_at <= y.created_at
      [] sort_by = "updated_at" -> x.updated_at <= y.updated_at
      [] sort_by = "file" -> StrLeq(lower(x.file), lower(y.file))
      [] sort_by = "status" -> StatusRank(x.status) <= StatusRank(y.status)
      [] OTHER -> x.progress <= y.progress

\* sorted(list, key=..., reverse=...): stable in both directions.
RECURSIVE sorted(_, _, _)
sorted(list, sort_by, reverse) ==
    IF list = <<>> THEN <<>>
    ELSE LET x == list[Len(list)]
             head == sorted(SubSeq(list, 1, Len(list) - 1), sort_by, reverse)
             Before(e) == IF reverse THEN KeyLeq(sort_by, x, e) ELSE KeyLeq(sort_by, e, x)
             k == Cardinality({i \in 1..Len(head) : Before(head[i])})
         IN SubSeq(head, 1, k) \o <<x>> \o SubSeq(head, k + 1, Len(head))

\* list[lo:hi] with Python's treatment of negative and too large indices.
PySlice(list, lo, hi) ==
    LET n == Len(list)
        Clamp(i) == IF i < 0 THEN (IF n + i < 0 THEN 0 ELSE n + i)
                    ELSE IF i > n THEN n ELSE i
    IN SubSeq(list, Clamp(lo) + 1, Clamp(hi))

\* Download.to_dict: 'downloaded_from': self.downloaded_from or 'telegram'
to_dict(row) == [row EXCEPT !.downloaded_from = IF @ = NoText THEN "telegram" ELSE @]

\* get_all_downloads as a list: not deleted, ordered by updated_at descending.
all_downloads(st) ==
    sorted(SelectSeq([i \in DOMAIN st |-> to_dict(st[i])], LAMBDA d : ~d.is_deleted),
           "updated_at", TRUE)

\* The routing table: mapping id -> downloaded_from.
Mappings == [id \in {1, 2} |-> IF id = 1 THEN "adult-site" ELSE "site.example"]

has_moreInclusive(offset, limit, total_count) == (offset + limit) <= total_count

has_more(offset, limit, total_count) == (offset + limit) < total_count

get_downloads(st, q) ==
    LET excluded_sources == {Mappings[id] : id \in q.exclude_mapping_ids \cap DOMAIN Mappings}
        query == lower(q.search)
        searched == IF query # <<>>
                    THEN SelectSeq(all_downloads(st), LAMBDA d : Contains(lower(d.file), query))
                    ELSE all_downloads(st)
        allowed == SelectSeq(searched, LAMBDA d : d.downloaded_from \notin excluded_sources)
        filtered_list == IF q.filter = "active"
                         THEN SelectSeq(allowed, LAMBDA d : d.status # "done")
                         ELSE allowed
        sorted_list == IF q.sort_by \in {"created_at", "file", "status", "progress"}
                       THEN sorted(filtered_list, q.sort_by, q.sort_order = "desc")
                       ELSE filtered_list
        total_count == Len(sorted_list)
    IN [downloads |-> PySlice(sorted_list, q.offset, q.offset + q.limit),
        has_more |-> has_more(q.offset, q.limit, total_count),
        total |-> total_count]

\* Rows a table may hold, without id and updated_at.
Pool ==
    {[file |-> <<"a", "b">>, status |-> "done", progress |-> 100, created_at |-> 1,
      downloaded_from |-> "telegram", is_deleted |-> FALSE],
     [file |-> <<"A">>, status |-> "downloading", progress |-> 50, created_at |-> 2,
      downloaded_from |-> "adult-site", is_deleted |-> FALSE],
     [file |-> <<"b">>, status |-> "failed", progress |-> 50, created_at |-> 2,
      downloaded_from |-> NoText, is_deleted |-> FALSE],
     [file |-> <<"B", "a">>, status |-> "done", progress |-> 100, created_at |-> 3,
      downloaded_from |-> "site.example", is_deleted |-> TRUE],
     [file |-> <<"a">>, status |-> "stopped", progress |-> 0, created_at |-> 1,
      downloaded_from |-> "site.example", is_deleted |-> FALSE]}

\* Row i was updated last at time i.
Tables ==
    UNION {{[i \in 1..n |-> [id |-> i, updated_at |-> i, file |-> f[i].file,
                            status |-> f[i].status, progress |-> f[i].progress,
                            created_at |-> f[i].created_at,
                            downloaded_from |-> f[i].downloaded_from,
                            is_deleted |-> f[i].is_deleted]] : f \in [1..n -> Pool]}
           : n \in 0..MaxRows}

Queries ==
    [op : {"list"}, search : {<<>>, <<"a">>, <<"B">>}, filter : {"all", "active"},
     sort_by : {"created_at", "file", "status", "progress", "size"},
     sort_order : {"asc", "desc"}, limit : (-1)..MaxPage, offset : (-1)..MaxPage,
     exclude_mapping_ids : {{}, {1}, {2, 9}}]

\* GET /api/downloads with a valid token: the request the client has sent is
\* answered in one step and nothing is written.
api_downloads(t) ==
    /\ UNCHANGED <<chat, main, observers>>
    /\ ~call.answered /\ call.request.op = "list"
    /\ Begin(t)
    /\ threads' = threads
    /\ returned' = [op |-> "list", message_id |-> <<>>, code |-> 200]
    /\ call' = [call EXCEPT !.response = get_downloads(store, call.request),
                            !.answered = TRUE]
    /\ NoEmit
    /\ UNCHANGED <<storeVars, regVars, workerVars, stopReturned>>

------------------------------------------------------------------------------
\* The video stream (GET /api/video/stream/<id>), for a done job whose file is
\* on disk.  Byte i of the file is written i, so a body is a sequence of offsets.

MaxFile == 4

\* str.split('-')
RECURSIVE split(_)
split(s) ==
    IF \A i \in 1..Len(s) : s[i] # "-" THEN <<s>>
    ELSE LET k == CHOOSE i \in 1..Len(s) : s[i] = "-" /\ \A j \in 1..(i - 1) : s[j] # "-"
         IN <<SubSeq(s, 1, k - 1)>> \o split(SubSeq(s, k + 1, Len(s)))

\* f.seek(start), then read until count bytes are read or the file ends.
read(file_size, start, count) ==
    LET last == IF start + count > file_size THEN file_size ELSE start + count
    IN [i \in 1..(IF last > start THEN last - start ELSE 0) |-> start + i - 1]

\* The Range branch and the full-file branch of stream_video.  range is the
\* header after 'bytes=' has been removed, or Null without the header.
stream_video(file_size, range) ==
    IF range # Null
    THEN LET range_match == split(range)
             byte_start == IF range_match[1] # <<>> THEN ToInt(range_match[1]) ELSE 0
             byte_end == IF Len(range_match) > 1 /\ range_match[2] # <<>>
                         THEN ToInt(range_match[2]) ELSE file_size - 1
             content_length == byte_end - byte_start + 1
         IN [status |-> 206,
             body |-> read(file_size, byte_start, content_length),
             content_range |-> [start |-> byte_start, end |-> byte_end, size |-> file_size],
             content_length |-> content_length]
    ELSE [status |-> 200,
          body |-> read(file_size, 0, file_size),
          content_range |-> Null,
          content_length |-> file_size]

\* Range headers: a-b, a- and -n.
Ranges ==
    {Str(a) \o <<"-">> \o Str(b) : a, b \in 0..(MaxFile + 1)}
        \cup {Str(a) \o <<"-">> : a \in 0..(MaxFile + 1)}
        \cup {<<"-">> \o Str(n) : n \in 1..(MaxFile + 1)}

Streams == [op : {"stream"}, file_size : 1..MaxFile, range : Ranges \cup {Null}]

\* GET /api/video/stream/<id> with a valid token.
api_stream(t) ==
    /\ UNCHANGED <<chat, main, observers>>
    /\ ~call.answered /\ call.request.op = "stream"
    /\ Begin(t)
    /\ threads' = threads
    /\ returned' = [op |-> "stream", message_id |-> <<>>, code |-> 200]
    /\ call' = [call EXCEPT !.response = stream_video(call.request.file_size,
                                                      call.request.range),
                            !.answered = TRUE]
    /\ NoEmit
    /\ UNCHANGED <<storeVars, regVars, workerVars, stopReturned>>

------------------------------------------------------------------------------
\* main() (backend/main.py) and TelegramDownloader.start, on the main thread.

MainStep(pc) ==
    /\ main' = [main EXCEPT !.pc = pc]
    /\ NoEmit /\ NoRet
    /\ UNCHANGED <<storeVars, regVars, workerVars, chat, threadVars, stopReturned,
                   observers>>

\* validate_credentials() reads API_ID, API_HASH, CHAT_ID; main returns when one
\* is missing, before any component is constructed.
validate_credentials ==
    /\ main.pc = "validate"
    /\ MainStep(IF main.configured THEN "construct" ELSE "returned")

\* The components are constructed and the Flask thread is started.
StartFlask ==
    /\ main.pc = "construct"
    /\ main' = [main EXCEPT !.pc = "run_loop", !.flask = TRUE]
    /\ NoEmit /\ NoRet
    /\ UNCHANGED <<storeVars, regVars, workerVars, chat, threadVars, stopReturned,
                   observers>>

\* The loop thread is started.
StartLoop ==
    /\ main.pc = "run_loop"
    /\ main' = [main EXCEPT !.pc = "start", !.loop = TRUE]
    /\ NoEmit /\ NoRet
    /\ UNCHANGED <<storeVars, regVars, workerVars, chat, threadVars, stopReturned,
                   observers>>

\* TelegramDownloader.start: without configuration or without a client (no
\* session file at construction) it sleeps for ever; otherwise the client runs.
telegram_start ==
    /\ main.pc = "start"
    /\ MainStep(CASE ~main.configured -> "unconfigured"
                  [] ~main.session -> "no_session"
                  [] OTHER -> "listening")

\* The socket (WebApp.setup_socketio).  A client asks to connect with or without
\* a valid bearer token; handle_connect prints and returns, which accepts it.
Clients == {[token |-> "valid"], [token |-> "missing"]}

handle_connect(o) ==
    /\ main.flask
    /\ o \notin observers
    /\ observers' = observers \cup {o}
    /\ NoEmit /\ NoRet
    /\ UNCHANGED <<storeVars, regVars, workerVars, chat, threadVars, stopReturned, main>>

handle_disconnect(o) ==
    /\ o \in observers
    /\ observers' = observers \ {o}
    /\ NoEmit /\ NoRet
    /\ UNCHANGED <<storeVars, regVars, workerVars, chat, threadVars, stopReturned, main>>

------------------------------------------------------------------------------
\* The components as main() constructs them: no rows, no tasks, no requests.
Constructed ==
    /\ store = [m \in {} |-> 0]
    /\ next_id = 1
    /\ download_tasks = [k \in TaskKeys |-> 0]
    /\ processes = [m \in {UrlMid} |-> 0]
    /\ wpc = [w \in Slots |-> "free"]
    /\ wcancel = [w \in Slots |-> "no"]
    /\ wthrottle = [w \in Slots |-> FALSE]
    /\ wproc = [w \in Slots |-> "none"]
    /\ wwait = [w \in Slots |-> 0]
    /\ wargs = [w \in Slots |-> NoArgs]
    /\ chat = NoChat
    /\ threads = [t \in Threads |-> Idle]
    /\ nreq = 0
    /\ emitted = NoEvent
    /\ returned = NoReturn
    /\ lastStatus = [m \in Mids |-> "none"]
    /\ quiet = [m \in Mids |-> FALSE]
    /\ announced = {}
    /\ stopReturned = [m \in Mids |-> FALSE]
    /\ received = NoReport
    /\ fresh = 0
    /\ observers = {}
    /\ call = NoCall

\* main() has started both threads and the Telegram client listens.
Served == [pc |-> "listening", configured |-> TRUE, session |-> TRUE,
           flask |-> TRUE, loop |-> TRUE]

Init == Constructed /\ main = Served

Next ==
    \/ \E t \in Threads, f \in FileSizes : start_download(t, f)
    \/ \E t \in Threads : Schedule(t)
    \/ \E t \in Threads : Register(t)
    \/ \E t \in Threads, op \in Ops : token_required(t, op)
    \/ \E t \in Threads, id \in RowIds : api_retry(t, id)
    \/ \E t \in Threads : RetryUpdate(t)
    \/ \E t \in Threads, mid \in {UrlMid, Null} : api_stop(t, mid)
    \/ \E t \in Threads, mid \in {UrlMid, Null} : api_delete(t, mid)
    \/ \E t \in Threads : CancelTask(t)
    \/ \E t \in Threads : StopWrite(t)
    \/ \E t \in Threads : StopEmit(t)
    \/ \E t \in Threads : DeleteWrite(t)
    \/ \E w \in Slots : WStart(w)
    \/ \E w \in Slots : WSpawned(w)
    \/ \E w \in Slots, line \in ProgressLines \cup {CompleteLine, AlreadyLine} :
          WLine(w, line)
    \/ \E w \in Slots : WAlready(w)
    \/ \E w \in Slots : WEof(w)
    \/ \E w \in Slots : WCancelled(w)
    \/ \E w \in Slots : WWaited(w)
    \/ \E w \in Slots : WEmit(w)
    \/ \E w \in Slots : WFinally(w)
    \/ \E w \in Slots : ProcExit(w)
    \/ \E w \in Slots : ExternalKill(w)
    \/ \E w \in Slots : Tick(w)

Spec == Init /\ [][Next]_vars

\* The program from the start of main(): startup, chat intake and URL intake.
InitMain ==
    /\ Constructed
    /\ main \in {[pc |-> "validate", configured |-> c, session |-> f,
                  flask |-> FALSE, loop |-> FALSE] : c, f \in BOOLEAN}

NextMain ==
    \/ validate_credentials
    \/ StartFlask
    \/ StartLoop
    \/ telegram_start
    \/ \E o \in Clients : handle_connect(o)
    \/ \E o \in Clients : handle_disconnect(o)
    \/ handle_new_file
    \/ \E t \in Threads, f \in FileSizes : start_download(t, f)
    \/ \E t \in Threads : Schedule(t)
    \/ \E t \in Threads : Register(t)
    \/ \E w \in Slots : WStart(w)
    \/ \E w \in Slots : WSpawned(w)
    \/ \E w \in Slots, line \in ProgressLines \cup {CompleteLine, AlreadyLine} :
          WLine(w, line)
    \/ \E w \in Slots : WAlready(w)
    \/ \E w \in Slots : WEof(w)
    \/ \E w \in Slots : WEmit(w)
    \/ \E w \in Slots : ProcExit(w)
    \/ \E w \in Slots : Tick(w)

SpecMain == InitMain /\ [][NextMain]_vars

\* SpecMain with the scheduling the program has: the main thread goes through
\* its startup, a request thread goes on to schedule and register the coroutine,
\* the loop runs every coroutine that can take a step, and a subprocess ends.
\* Requests, chat messages, client connections, output lines and the passing of
\* a second come from outside and are not obliged to happen.
FairMain ==
    /\ WF_vars(validate_credentials \/ StartFlask \/ StartLoop \/ telegram_start)
    /\ \A t \in Threads : WF_vars(Schedule(t) \/ Register(t))
    /\ \A w \in Slots : WF_vars(WStart(w) \/ WSpawned(w) \/ WEof(w) \/ WEmit(w))
    /\ \A w \in Slots : WF_vars(ProcExit(w))

SpecMainFair == SpecMain /\ FairMain

\* The read requests taken on their own, over every table of the model.
InitRead ==
    /\ store \in Tables
    /\ next_id = Len(store) + 1
    /\ download_tasks = [k \in TaskKeys |-> 0]
    /\ processes = [m \in {UrlMid} |-> 0]
    /\ wpc = [w \in Slots |-> "free"]
    /\ wcancel = [w \in Slots |-> "no"]
    /\ wthrottle = [w \in Slots |-> FALSE]
    /\ wproc = [w \in Slots |-> "none"]
    /\ wwait = [w \in Slots |-> 0]
    /\ wargs = [w \in Slots |-> NoArgs]
    /\ chat = NoChat
    /\ threads = [t \in Threads |-> Idle]
    /\ nreq = 0
    /\ emitted = NoEvent
    /\ returned = NoReturn
    /\ lastStatus = [m \in Mids |-> "none"]
    /\ quiet = [m \in Mids |-> FALSE]
    /\ announced = {}
    /\ stopReturned = [m \in Mids |-> FALSE]
    /\ received = NoReport
    /\ fresh = 0
    /\ observers = {}
    /\ call \in {[request |-> q, response |-> <<>>, answered |-> FALSE] :
                     q \in Queries \cup Streams}
    /\ main = Served

NextRead ==
    \/ \E t \in Threads : api_downloads(t)
    \/ \E t \in Threads : api_stream(t)

SpecRead == InitRead /\ [][NextRead]_vars

\* safe_download has been called for the row of chat message ChatMsgId
\* (_handle_new_file: add_download, download:new, create_task, download_tasks).
InitChat ==
    /\ store = add_download([m \in {} |-> 0],
                            NewRow(1, Str(ChatMsgId), "downloading", 0, 0, NoText, 0, 0,
                                   NoNum, NoText))
    /\ next_id = 2
    /\ download_tasks = [k \in TaskKeys |-> IF k = IntKey(ChatMsgId) THEN ChatSlot ELSE 0]
    /\ processes = [m \in {UrlMid} |-> 0]
    /\ wpc = [w \in Slots |-> IF w = ChatSlot THEN "c_reply" ELSE "free"]
    /\ wcancel = [w \in Slots |-> "no"]
    /\ wthrottle = [w \in Slots |-> FALSE]
    /\ wproc = [w \in Slots |-> "none"]
    /\ wwait = [w \in Slots |-> 0]
    /\ wargs = [w \in Slots |-> NoArgs]
    /\ chat = NoChat
    /\ threads = [t \in Threads |-> Idle]
    /\ nreq = 0
    /\ emitted = NoEvent
    /\ returned = NoReturn
    /\ lastStatus = [m \in Mids |-> IF m = ChatMid THEN "downloading" ELSE "none"]
    /\ quiet = [m \in Mids |-> FALSE]
    /\ announced = {ChatMid}
    /\ stopReturned = [m \in Mids |-> FALSE]
    /\ received = NoReport
    /\ fresh = 0
    /\ observers = {}
    /\ call = NoCall
    /\ main = Served

NextChat ==
    \/ \E t \in Threads, id \in RowIds : api_retry(t, id)
    \/ \E t \in Threads : RetryUpdate(t)
    \/ \E t \in Threads, mid \in {ChatMid, Null} : api_stop(t, mid)
    \/ \E t \in Threads, mid \in {ChatMid, Null} : api_delete(t, mid)
    \/ \E t \in Threads : StopWrite(t)
    \/ \E t \in Threads : StopEmit(t)
    \/ \E t \in Threads : DeleteWrite(t)
    \/ CReply
    \/ \E r \in ChatReports : CProgress(r)
    \/ CFail
    \/ CDone
    \/ CSlept
    \/ CTick
    \/ CCancelled
    \/ CEmit
    \/ CEdited

SpecChat == InitChat /\ [][NextChat]_vars

------------------------------------------------------------------------------
\* DatabaseManager.update_download_by_message_id taken on its own: one call with
\* a key and a patch the program uses, on every table of the model.

\* The argument message_id: a uuid string, a chat message number, or None.
NoneKey == [type |-> "none", repr |-> Null]
UpdateKeys == {StrKey(UrlMid), StrKey(<<"u", "-", "2">>), IntKey(ChatMsgId),
               IntKey(ChatMsgId + 1), NoneKey}

\* msg_id = str(message_id) if message_id is not None else None
msg_id(message_id) == IF message_id.type = "none" THEN Null ELSE message_id.repr

\* The keyword arguments the workers and the control surface call it with.
UpdatePatches ==
    {ProgressPatch(parse_progress(l)) : l \in ProgressLines}
        \cup {ChatProgressPatch(r) : r \in {q \in ChatReports : ~Unsized(q)}}
        \cup {DonePatch, FailedPatch("Download failed"), StoppedPatch, ChatFailedPatch,
              [error |-> error_msg(1, MediaErrorText)]}

\* Rows the table may hold for a job: as created, with a progress line written,
\* failed after it, and soft-deleted.
StoredRows(id, mid, url) ==
    LET created == NewRow(id, mid, "downloading", 0, 0, NoText, 0, 0, NoNum, url)
        half == Patch(created, ProgressPatch(parse_progress(Line(50, 2, <<0, 5>>))))
        failed == Patch(half, FailedPatch("Download failed"))
    IN {created, half, failed, [failed EXCEPT !.is_deleted = TRUE]}

StoredTables ==
    {[m \in {} |-> 0]}
        \cup {add_download([m \in {} |-> 0], r) : r \in StoredRows(1, UrlMid, Url)}
        \cup {add_download([m \in {} |-> 0], r) : r \in StoredRows(1, ChatMid, NoText)}
        \cup {add_download(add_download([m \in {} |-> 0], r), c) :
                 r \in StoredRows(1, UrlMid, Url), c \in StoredRows(2, ChatMid, NoText)}

Updates == [op : {"update"}, message_id : UpdateKeys, patch : UpdatePatches]

\* return download.to_dict() of the row found, or None (the empty sequence).
updated_download(st, mid) == IF mid \in DOMAIN st THEN <<st[mid]>> ELSE <<>>

\* One call of update_download_by_message_id(message_id, **kwargs).
db_update ==
    /\ ~call.answered /\ call.request.op = "update"
    /\ LET mid == msg_id(call.request.message_id)
           written == update_download_by_message_id(store, mid, call.request.patch)
       IN /\ store' = written
          /\ call' = [call EXCEPT !.response = updated_download(written, mid),
                                  !.answered = TRUE]
    /\ returned' = NoReturn
    /\ NoEmit
    /\ UNCHANGED <<next_id, regVars, workerVars, chat, threadVars, stopReturned, main,
                   observers>>

InitStore ==
    /\ store \in StoredTables
    /\ next_id = Cardinality(DOMAIN store) + 1
    /\ download_tasks = [k \in TaskKeys |-> 0]
    /\ processes = [m \in {UrlMid} |-> 0]
    /\ wpc = [w \in Slots |-> "free"]
    /\ wcancel = [w \in Slots |-> "no"]
    /\ wthrottle = [w \in Slots |-> FALSE]
    /\ wproc = [w \in Slots |-> "none"]
    /\ wwait = [w \in Slots |-> 0]
    /\ wargs = [w \in Slots |-> NoArgs]
    /\ chat = NoChat
    /\ threads = [t \in Threads |-> Idle]
    /\ nreq = 0
    /\ emitted = NoEvent
    /\ returned = NoReturn
    /\ lastStatus = [m \in Mids |-> "none"]
    /\ quiet = [m \in Mids |-> FALSE]
    /\ announced = {}
    /\ stopReturned = [m \in Mids |-> FALSE]
    /\ received = NoReport
    /\ fresh = 0
    /\ observers = {}
    /\ call \in {[request |-> q, response |-> <<>>, answered |-> FALSE] : q \in Updates}
    /\ main = Served

NextStore == db_update

SpecStore == InitStore /\ [][NextStore]_vars

------------------------------------------------------------------------------
\* Two chat downloads at once: two safe_download tasks on the Telethon loop, for
\* the messages ChatMsgId and ChatMsgId + 1, and the one TelegramDownloader they
\* belong to.  Here chat.attempt, chat.replied and chat.announces hold one value
\* per task; chat.broadcast is the shared last_broadcast.

ChatSlots == {1, 2}

\* message_id of the task in slot w, as the row holds it.
ChatJob(w) == Str(ChatMsgId + w - 1)

ChatsFrame == UNCHANGED <<next_id, processes, wthrottle, wproc, wwait, nreq, stopReturned,
                          main, observers, download_tasks, wcancel, wargs, threads>>

\* progress_callback of task w: with total = 0 the division raises; otherwise
\* the row is written, then emit_progress: with now - last_broadcast >= 1 it sets
\* last_broadcast, emits the event and raises on the import of get_web_app.  An
\* exception ends the attempt.
ChatsProgress(w, r) ==
    /\ wpc[w] = "c_download"
    /\ LET p == ChatProgressPatch(r)
           written == update_download_by_message_id(store, ChatJob(w), p)
       IN IF Unsized(r)
          THEN /\ Report(w, r, NoEvent)
               /\ store' = update_download_by_message_id(store, ChatJob(w),
                               [error |-> error_msg(chat.attempt[w], ZeroDivisionText)])
               /\ wpc' = [wpc EXCEPT ![w] = "c_sleep"]
               /\ UNCHANGED chat
          ELSE IF chat.broadcast
          THEN /\ Report(w, p, ProgressEvent(ChatJob(w), p.progress, p.downloaded_bytes,
                                             p.total_bytes))
               /\ chat' = [chat EXCEPT !.broadcast = FALSE]
               /\ store' = update_download_by_message_id(written, ChatJob(w),
                               [error |-> error_msg(chat.attempt[w], ImportErrorText)])
               /\ wpc' = [wpc EXCEPT ![w] = "c_sleep"]
          ELSE /\ Report(w, p, NoEvent)
               /\ store' = written
               /\ UNCHANGED <<chat, wpc>>
    /\ NoRet /\ ChatsFrame

\* download_media of task w raises.
ChatsFail(w) ==
    /\ wpc[w] = "c_download"
    /\ store' = update_download_by_message_id(store, ChatJob(w),
                    [error |-> error_msg(chat.attempt[w], MediaErrorText)])
    /\ wpc' = [wpc EXCEPT ![w] = "c_sleep"]
    /\ NoEmit /\ NoRet /\ ChatsFrame
    /\ UNCHANGED chat

\* download_media of task w returns: the final update.
ChatsDone(w) ==
    /\ wpc[w] = "c_download"
    /\ store' = update_download_by_message_id(store, ChatJob(w), DonePatch)
    /\ wpc' = [wpc EXCEPT ![w] = "c_wroteDone"]
    /\ NoEmit /\ NoRet /\ ChatsFrame
    /\ UNCHANGED chat

\* asyncio.sleep(5) of task w is over.
ChatsSlept(w) ==
    /\ wpc[w] = "c_sleep"
    /\ IF chat.attempt[w] + 1 \in Attempts
       THEN /\ chat' = [chat EXCEPT !.attempt[w] = @ + 1]
            /\ wpc' = [wpc EXCEPT ![w] = "c_download"]
            /\ UNCHANGED store
       ELSE /\ store' = update_download_by_message_id(store, ChatJob(w), ChatFailedPatch)
            /\ wpc' = [wpc EXCEPT ![w] = "c_wroteFailed"]
            /\ UNCHANGED chat
    /\ NoEmit /\ NoRet /\ ChatsFrame

\* One second has passed since last_broadcast.
ChatsTick ==
    /\ \E w \in ChatSlots : wpc[w] \in {"c_download", "c_sleep"}
    /\ ~chat.broadcast
    /\ chat' = [chat EXCEPT !.broadcast = TRUE]
    /\ fresh' = 0
    /\ Silent /\ received' = NoReport /\ NoRet /\ ChatsFrame
    /\ UNCHANGED <<store, wpc>>

\* emit_status of task w; after done the status message is edited, if there is one.
ChatsEmit(w) ==
    /\ wpc[w] \in {"c_wroteDone", "c_wroteFailed"}
    /\ Emit(StatusEvent(ChatJob(w), IF wpc[w] = "c_wroteDone" THEN "done" ELSE "failed"))
    /\ chat' = [chat EXCEPT !.announces[w] = @ + 1]
    /\ IF wpc[w] = "c_wroteDone" /\ chat.replied[w]
       THEN /\ wpc' = [wpc EXCEPT ![w] = "c_editing"]
            /\ UNCHANGED <<download_tasks, wcancel, wargs, threads, wthrottle, wwait,
                           processes, nreq>>
       ELSE EndWorker(w, ChatJob(w), FALSE)
    /\ NoRet
    /\ UNCHANGED <<storeVars, wproc, stopReturned, main, observers>>

\* edit_status_message returns and so does task w.
ChatsEdited(w) ==
    /\ wpc[w] = "c_editing"
    /\ EndWorker(w, ChatJob(w), FALSE)
    /\ NoEmit /\ NoRet
    /\ UNCHANGED <<chat, storeVars, wproc, stopReturned, main, observers>>

\* Both tasks are at download_media of their first attempt.
InitChats ==
    /\ store = add_download(
                  add_download([m \in {} |-> 0],
                               NewRow(1, ChatJob(1), "downloading", 0, 0, NoText, 0, 0,
                                      NoNum, NoText)),
                  NewRow(2, ChatJob(2), "downloading", 0, 0, NoText, 0, 0, NoNum, NoText))
    /\ next_id = 3
    /\ download_tasks = [k \in TaskKeys |->
                            IF \E w \in ChatSlots : k = IntKey(ChatMsgId + w - 1)
                            THEN CHOOSE w \in ChatSlots : k = IntKey(ChatMsgId + w - 1)
                            ELSE 0]
    /\ processes = [m \in {UrlMid} |-> 0]
    /\ wpc = [w \in Slots |-> IF w \in ChatSlots THEN "c_download" ELSE "free"]
    /\ wcancel = [w \in Slots |-> "no"]
    /\ wthrottle = [w \in Slots |-> FALSE]
    /\ wproc = [w \in Slots |-> "none"]
    /\ wwait = [w \in Slots |-> 0]
    /\ wargs = [w \in Slots |-> NoArgs]
    /\ chat \in {[attempt |-> [w \in ChatSlots |-> 1], replied |-> f, broadcast |-> TRUE,
                  announces |-> [w \in ChatSlots |-> 0]] : f \in [ChatSlots -> BOOLEAN]}
    /\ threads = [t \in Threads |-> Idle]
    /\ nreq = 0
    /\ emitted = NoEvent
    /\ returned = NoReturn
    /\ lastStatus = [m \in Mids |-> IF m = ChatMid THEN "downloading" ELSE "none"]
    /\ quiet = [m \in Mids |-> FALSE]
    /\ announced = {ChatJob(w) : w \in ChatSlots}
    /\ stopReturned = [m \in Mids |-> FALSE]
    /\ received = NoReport
    /\ fresh = 0
    /\ observers = {}
    /\ call = NoCall
    /\ main = Served

NextChats ==
    \/ \E w \in ChatSlots, r \in ChatReports : ChatsProgress(w, r)
    \/ \E w \in ChatSlots : ChatsFail(w)
    \/ \E w \in ChatSlots : ChatsDone(w)
    \/ \E w \in ChatSlots : ChatsSlept(w)
    \/ ChatsTick
    \/ \E w \in ChatSlots : ChatsEmit(w)
    \/ \E w \in ChatSlots : ChatsEdited(w)

SpecChats == InitChats /\ [][NextChats]_vars

------------------------------------------------------------------------------
\* Properties.

\* A Worker of the URL job exists in slot w: its coroutine body is running (past
\* the task's first step and not yet through its finally block).
Worker(w) == wpc[w] \notin {"free", "scheduled"}

Workers == {w \in Slots : Worker(w)}

Deleted(m) == m \in Rows /\ store[m].is_deleted

\* The event of the step, when it is about a job of the model.
Emits(topics) == emitted'.topic \in topics /\ emitted'.message_id \in Mids

\* C1: at most one Worker exists for an external_id at any time, whatever the
\* interleaving of start, stop, retry and delete with the workers' steps.
C1_AtMostOneWorker == Cardinality(Workers) <= 1

\* C2: a job whose row is soft-deleted has no Worker.
C2_DeletedHasNoWorker == Deleted(UrlMid) => Workers = {}

\* C3: in every state of the store, progress = 100 exactly when status = done.
C3_FullIffDone ==
    \A m \in Rows : (store[m].progress = 100) <=> (store[m].status = "done")

\* C4: in every state of the store, a job that is done, failed or stopped has
\* speed 0.
C4_TerminalSpeedZero ==
    \A m \in Rows : store[m].status \in Terminal => store[m].speed = 0

\* C5: the statuses announced for a job follow the state machine: a terminal
\* status is announced only after downloading, and downloading is announced again
\* only after a terminal status.
C5_StatusPath ==
    [][Emits({"status"}) =>
          IF emitted'.status \in Terminal
          THEN lastStatus[emitted'.message_id] = "downloading"
          ELSE lastStatus[emitted'.message_id] \in Terminal]_vars

\* C6: when a terminal status event is emitted, the row of the job holds that
\* status.
C6_StoreHoldsEmitted ==
    [][(Emits({"status"}) /\ emitted'.status \in Terminal) =>
          /\ emitted'.message_id \in Rows
          /\ store'[emitted'.message_id].status = emitted'.status]_vars

\* C7: once status(stopped) or deleted has been emitted for a job, the next
\* progress or status event for it is the status(downloading) of a retry; and no
\* progress event comes before the job's new event.
C7_EventOrder ==
    [][Emits({"progress", "status"}) =>
          /\ emitted'.message_id \in announced
          /\ quiet[emitted'.message_id] =>
                (emitted'.topic = "status" /\ emitted'.status = "downloading")]_vars

\* C8: in every row and in every progress event, downloaded_bytes <= total_bytes
\* whenever total_bytes is not zero.
C8_DownloadedWithinTotal ==
    /\ \A m \in Rows : store[m].total_bytes # 0 =>
                          store[m].downloaded_bytes <= store[m].total_bytes
    /\ (emitted.topic = "progress" /\ emitted.total_bytes # 0) =>
          emitted.downloaded_bytes <= emitted.total_bytes

\* C8 witness: while two workers write the same row, a progress line has just been
\* written and emitted; the row and the event carry a known total and a positive
\* number of bytes.
C8_Witness ==
    /\ emitted.topic = "progress"
    /\ emitted.total_bytes = 2048 /\ emitted.downloaded_bytes = 1024
    /\ store[UrlMid].total_bytes = 2048 /\ store[UrlMid].downloaded_bytes = 1024
    /\ Cardinality(Workers) = 2

\* C9: no worker writes failed for a subprocess that ended by the signal of a
\* stop or delete.
C9_CancelNeverFailed ==
    \A w \in Slots : ~(wpc[w] = "wroteFailed" /\ wproc[w] = "exitTerm")

\* C10: after a stop has returned success the row stays stopped until a retry
\* writes it.
C10_StopIsFinal ==
    \A m \in Rows : stopReturned[m] => store[m].status = "stopped"

\* The step is the write of a retry (api_retry's update_download_by_id).
RetryWrites(t) ==
    threads[t].op = "retry" /\ threads[t].pc = "update" /\ threads'[t].pc # "update"

\* C11: a created job is listed and found by id and by external_id; a
\* soft-deleted job is in no list and no stats count while its row remains; after
\* the write of a retry the list shows the job with status downloading.
C11_RoundTrip ==
    [][/\ \A m \in DOMAIN store' \ DOMAIN store :
             /\ m \in get_downloads_data(store', "all")
             /\ get_download_by_id(store', store'[m].id) = {m}
             /\ get_download_by_message_id(store', m) = {m}
       /\ \A m \in DOMAIN store' :
             store'[m].is_deleted =>
                /\ m \notin get_downloads_data(store', "all")
                /\ m \notin get_downloads_data(store', "active")
                /\ get_stats(store').total_count < Cardinality(DOMAIN store')
       /\ \A t \in Threads :
             RetryWrites(t) =>
                /\ threads[t].message_id \in get_downloads_data(store', "all")
                /\ store'[threads[t].message_id].status = "downloading"]_vars

\* The step belongs to a delete request served by thread t.
DeleteStep(t) ==
    \/ threads[t].op = "delete" /\ threads'[t] # threads[t]
    \/ threads[t] = Idle /\ threads'[t].op = "delete"
    \/ threads[t] = Idle /\ returned'.op = "delete"

\* C12: a delete of a job that is already soft-deleted returns success and
\* leaves the job's is_deleted flag, its status and both registries as they were.
C12_DeleteIdempotent ==
    [][\A t \in Threads, m \in Rows :
          (DeleteStep(t) /\ store[m].is_deleted) =>
             /\ store'[m].is_deleted = store[m].is_deleted
             /\ store'[m].status = store[m].status
             /\ download_tasks' = download_tasks
             /\ processes' = processes
             /\ returned'.op = "delete" => returned'.code = 200]_vars

\* The step is a retry request that returns at once: the id is unknown or the
\* row's status is neither failed nor stopped.
RetryRefused == nreq' # nreq /\ returned'.op = "retry"

\* C13: a retry acts only on a job whose current status is failed or stopped: a
\* refused retry changes no row, emits nothing and starts no worker, and the row
\* a retry writes is failed or stopped when it is written.
C13_RetryOnlyFailedOrStopped ==
    [][/\ RetryRefused =>
             /\ store' = store
             /\ emitted' = NoEvent
             /\ wpc' = wpc /\ download_tasks' = download_tasks
       /\ \A t \in Threads :
             RetryWrites(t) =>
                store[threads[t].message_id].status \in {"failed", "stopped"}]_vars

\* The row a retry thread works on, as api_retry read it by id.
RetryRow(t) == CHOOSE m \in Rows : store[m].id = threads[t].id

\* The step is the retry's run_coroutine_threadsafe, or its assignment to
\* download_tasks.
RetrySchedules(t) ==
    threads[t].op = "retry" /\ threads[t].pc = "schedule" /\ threads'[t].pc = "register"
RetryRegisters(t) ==
    threads[t].op = "retry" /\ threads[t].pc = "register" /\ threads'[t] = Idle

\* C14: the retry of a URL job writes status downloading and leaves progress,
\* downloaded_bytes and total_bytes as they were, emits status(downloading),
\* starts one download coroutine with the row's message_id and url, and stores
\* its future in download_tasks under that message_id.
C14_RetryUrlJob ==
    [][\A t \in Threads :
          /\ (RetryWrites(t) /\ store[RetryRow(t)].url # NoText) =>
                LET m == RetryRow(t)
                IN /\ store'[m].status = "downloading"
                   /\ store'[m].progress = store[m].progress
                   /\ store'[m].downloaded_bytes = store[m].downloaded_bytes
                   /\ store'[m].total_bytes = store[m].total_bytes
                   /\ emitted' = StatusEvent(m, "downloading")
          /\ RetrySchedules(t) =>
                LET m == RetryRow(t)
                IN /\ threads'[t].fut \in Slots
                   /\ wpc[threads'[t].fut] = "free"
                   /\ wpc' = [wpc EXCEPT ![threads'[t].fut] = "scheduled"]
                   /\ wargs'[threads'[t].fut] = [url |-> store[m].url, message_id |-> m]
          /\ RetryRegisters(t) =>
                download_tasks' = [download_tasks EXCEPT ![StrKey(RetryRow(t))] =
                                      threads[t].fut]]_vars

\* C14 witness: a retry has just returned for a URL job that had reached 50%; the
\* row is downloading with its progress and bytes kept, and the future stored
\* under its message_id belongs to a coroutine called with that message_id.
C14_Witness ==
    /\ returned = [op |-> "retry", message_id |-> UrlMid, code |-> 200]
    /\ store[UrlMid].status = "downloading"
    /\ store[UrlMid].progress = 50 /\ store[UrlMid].downloaded_bytes = 1024
    /\ download_tasks[StrKey(UrlMid)] \in Slots
    /\ wargs[download_tasks[StrKey(UrlMid)]] = [url |-> Url, message_id |-> UrlMid]

\* C15: the retry of a chat job (url is null) writes status downloading,
\* progress 0, speed 0 and error null, emits status(downloading), returns, and
\* starts no worker: no coroutine is scheduled and no registry changes.
C15_RetryChatJob ==
    [][\A t \in Threads :
          (RetryWrites(t) /\ store[RetryRow(t)].url = NoText) =>
             LET m == RetryRow(t)
             IN /\ store'[m].status = "downloading"
                /\ store'[m].progress = 0
                /\ store'[m].speed = 0
                /\ store'[m].error = NoText
                /\ emitted' = StatusEvent(m, "downloading")
                /\ threads'[t] = Idle
                /\ wpc' = wpc /\ wargs' = wargs
                /\ download_tasks' = download_tasks /\ processes' = processes]_vars

\* C15 witness: a retry has just returned for the chat job, whose worker had
\* written 2048 bytes of progress and an error text before the job became failed
\* or stopped; the row is downloading at progress 0 with no error.
C15_Witness ==
    /\ returned = [op |-> "retry", message_id |-> ChatMid, code |-> 200]
    /\ emitted = StatusEvent(ChatMid, "downloading")
    /\ store[ChatMid].status = "downloading"
    /\ store[ChatMid].progress = 0 /\ store[ChatMid].downloaded_bytes = 2048
    /\ store[ChatMid].error = NoText

\* Steps of the chat worker, told by its position before and after.
ChatGoes(from, to) == wpc[ChatSlot] = from /\ wpc'[ChatSlot] = to

\* C16: an attempt that raises writes its error text and is followed, after the
\* sleep, by the next attempt while fewer than MAX_RETRIES were made; after
\* attempt MAX_RETRIES the worker writes failed with speed 0 and pending_time
\* null, emits status(failed) as its only status event and ends.  An attempt
\* that succeeds writes done, progress 100, speed 0, pending_time 0, emits
\* status(done), and no attempt follows.
C16_ChatRetryProtocol ==
    [][/\ ChatGoes("c_download", "c_sleep") =>
             \E e \in {ImportErrorText, MediaErrorText, ZeroDivisionText} :
                store'[ChatMid].error = error_msg(chat.attempt, e)
       /\ ChatGoes("c_sleep", "c_download") =>
             /\ chat.attempt < MAX_RETRIES
             /\ chat'.attempt = chat.attempt + 1
       /\ ChatGoes("c_sleep", "c_wroteFailed") =>
             /\ chat.attempt = MAX_RETRIES
             /\ store'[ChatMid].status = "failed"
             /\ store'[ChatMid].speed = 0
             /\ store'[ChatMid].pending_time = NoNum
       /\ ChatGoes("c_wroteFailed", "free") =>
             /\ emitted' = StatusEvent(ChatMid, "failed")
             /\ chat'.announces = 1
       /\ ChatGoes("c_download", "c_wroteDone") =>
             /\ store'[ChatMid].status = "done"
             /\ store'[ChatMid].progress = 100
             /\ store'[ChatMid].speed = 0
             /\ store'[ChatMid].pending_time = 0
       /\ wpc[ChatSlot] = "c_wroteDone" =>
             \/ wpc'[ChatSlot] = "c_wroteDone"
             \/ /\ emitted' = StatusEvent(ChatMid, "done")
                /\ wpc'[ChatSlot] \in {"c_editing", "free"}
                /\ chat'.attempt = chat.attempt
       /\ wpc[ChatSlot] = "c_editing" => wpc'[ChatSlot] # "c_download"]_vars

\* C16 witness: every attempt has raised; the worker has just emitted
\* status(failed) after attempt MAX_RETRIES and ended.
C16_Witness ==
    /\ emitted = StatusEvent(ChatMid, "failed")
    /\ chat.attempt = MAX_RETRIES /\ chat.announces = 1
    /\ wpc[ChatSlot] = "free"
    /\ store[ChatMid].status = "failed" /\ store[ChatMid].pending_time = NoNum
    /\ store[ChatMid].error \in {error_msg(MAX_RETRIES, ImportErrorText),
                                  error_msg(MAX_RETRIES, MediaErrorText)}

\* C17: when the CancelledError reaches the chat worker, at whichever await it
\* is suspended, the worker writes status stopped and speed 0 and goes on to
\* emit status(stopped).
C17_ChatCancelWritesStopped ==
    [][(wcancel[ChatSlot] = "requested" /\ wcancel'[ChatSlot] # "requested"
        /\ wpc[ChatSlot] \in {"c_reply", "c_download", "c_sleep", "c_editing"}) =>
          /\ wpc'[ChatSlot] = "c_wroteStopped"
          /\ store'[ChatMid].status = "stopped"
          /\ store'[ChatMid].speed = 0]_vars

\* The coroutine of slot w ends with this step.
WorkerEnds(w) == wpc[w] # "free" /\ wpc'[w] = "free"

\* C18: a URL worker ends only after it has written a terminal status (its last
\* step is the emit that follows the write), unless its task was cancelled
\* before the coroutine started.
C18_NoExceptionEscapes ==
    [][\A w \in Slots :
          WorkerEnds(w) =>
             \/ wpc[w] \in {"wroteDone", "wroteFailed", "wroteStopped"}
             \/ wpc[w] = "scheduled" /\ wcancel[w] = "requested"]_vars

\* C19: at the end of the subprocess, exit code 0 writes done; an exit by a
\* signal writes nothing; another exit code writes failed unless the row is
\* already stopped or done.
C19_CompletionByExitCode ==
    [][\A w \in Slots :
          (wpc[w] = "reading" /\ wproc[w] \in Exited /\ wpc'[w] # "reading") =>
             LET m == wargs[w].message_id
             IN CASE wproc[w] = "exit0" -> store'[m].status = "done"
                  [] wproc[w] \in {"exitTerm", "exitExt"} -> store' = store
                  [] OTHER -> IF store[m].status \in {"stopped", "done"}
                              THEN store' = store
                              ELSE store'[m].status = "failed"]_vars

\* C20: a worker cancelled while its subprocess runs signals that subprocess, and
\* when it ends after the stopped write and emit, no entry of either registry is
\* left for its message_id and its subprocess is not left running.
C20_UrlCancellation ==
    [][\A w \in Slots :
          /\ (wcancel[w] = "requested" /\ wcancel'[w] = "delivered"
              /\ wproc[w] = "running") => wproc'[w] = "term"
          /\ (wpc[w] = "wroteStopped" /\ WorkerEnds(w)) =>
                /\ emitted' = StatusEvent(wargs[w].message_id, "stopped")
                /\ processes'[wargs[w].message_id] = 0
                /\ download_tasks'[StrKey(wargs[w].message_id)] = 0
                /\ wproc[w] # "running"]_vars

\* C21: a progress event for a job is emitted only when no progress event for
\* that job is less than 1 second old.
C21_ProgressThrottle ==
    [][Emits({"progress"}) => fresh = 0]_vars

\* A worker takes a progress report with this step.
Receives == received'.slot # 0

\* C22: a progress report of 100 is never dropped by the throttle: the step that
\* takes it emits a progress event carrying progress = 100.
C22_FinalProgressEmitted ==
    [][(Receives /\ received'.info.progress = 100) =>
          (emitted'.topic = "progress" /\ emitted'.progress = 100)]_vars

\* The columns a progress report carries.
ReportColumns == {"progress", "downloaded_bytes", "total_bytes", "speed", "pending_time"}

\* C23: after a URL worker takes a progress line with values (not the bare
\* completion line), the row of its job holds the values of that line.
C23_StoreNotThrottled ==
    [][(Receives /\ ReportColumns \subseteq DOMAIN received'.info) =>
          LET m == wargs[received'.slot].message_id
          IN /\ m \in DOMAIN store'
             /\ \A c \in ReportColumns : store'[m][c] = received'.info[c]]_vars

\* C24: the job identifier of every event on the bus is a string.
C24_EventIdIsString ==
    [][emitted'.topic # "none" => IsString(emitted'.message_id)]_vars

\* main() has gone through its startup: it returned or TelegramDownloader.start
\* has taken its branch.
Started == main.pc \in {"returned", "unconfigured", "no_session", "listening"}

\* C25: with the chat credentials or the session missing, the started program
\* runs the Flask thread and the loop thread, and the chat intake inserts no job.
C25_ServesWithoutChat ==
    (Started /\ ~(main.configured /\ main.session)) =>
        /\ main.flask /\ main.loop
        /\ ChatMid \notin Rows

\* C26: the step that inserts the job of an inbound chat message gives it
\* status downloading, emits new for it and registers a worker under the
\* message number.
C26_ChatIntakeStartsWorker ==
    [][(ChatMid \notin Rows /\ ChatMid \in DOMAIN store') =>
          /\ store'[ChatMid].status = "downloading"
          /\ emitted' = NewEvent(ChatMid)
          /\ download_tasks'[IntKey(ChatMsgId)] \in Slots]_vars

\* The step answers a request that carried no valid token or no message_id.
ClientError == returned'.op # "none" /\ returned'.message_id = Null

\* C27: a request with a bad token or without the job identifier is answered
\* with a 4xx code, and its answer step changes neither the store nor the
\* registries nor the workers and emits nothing.
C27_ClientErrorNoMutation ==
    [][ClientError =>
          /\ returned'.code \in 400..499
          /\ emitted' = NoEvent
          /\ UNCHANGED <<store, download_tasks, processes, wcancel, wproc>>]_vars

\* C28: every client that an event is sent to has presented a valid token.
C28_ChannelAuthenticated ==
    [][emitted'.topic # "none" => \A o \in observers' : o.token = "valid"]_vars

\* The jobs the list request q is to return from table st.
Expected(st, q) ==
    {i \in DOMAIN st :
        /\ ~st[i].is_deleted
        /\ to_dict(st[i]).downloaded_from \notin
              {Mappings[id] : id \in q.exclude_mapping_ids \cap DOMAIN Mappings}
        /\ Contains(lower(st[i].file), lower(q.search))
        /\ q.filter = "active" => st[i].status # "done"}

\* list is ordered by the key of q (any order for a sort key the code does not know).
Ordered(list, q) ==
    q.sort_by \in {"created_at", "file", "status", "progress"} =>
        \A i, j \in 1..Len(list) :
            i < j => IF q.sort_order = "desc" THEN KeyLeq(q.sort_by, list[j], list[i])
                     ELSE KeyLeq(q.sort_by, list[i], list[j])

\* The elements of list at the positions lo <= p < hi, counted from 0.
Interval(list, lo, hi) ==
    SubSeq(list, (IF lo < 0 THEN 0 ELSE lo) + 1, IF hi > Len(list) THEN Len(list) ELSE hi)

\* The answer to the list request of the last step is the page the request names.
ListAnswer ==
    LET q == call.request
        r == call.response
        whole == get_downloads(store, [q EXCEPT !.offset = 0, !.limit = Len(store)]).downloads
    IN /\ {d.id : d \in {whole[i] : i \in 1..Len(whole)}} = Expected(store, q)
       /\ Len(whole) = Cardinality(Expected(store, q))
       /\ Ordered(whole, q)
       /\ r.total = Cardinality(Expected(store, q))
       /\ r.downloads = Interval(whole, q.offset, q.offset + q.limit)
       /\ r.has_more = (q.offset + q.limit < r.total)

Bytes(lo, hi) == [i \in 1..(hi - lo + 1) |-> lo + i - 1]

\* C30: a Range request that names bytes of the file is answered 206 with the
\* bytes it names (a-b: bytes a..b, cut at the end of the file; a-: from a to the
\* end; -n: the last n bytes), a Content-Length equal to the body length and a
\* Content-Range that names the bytes of the body and the file size.
C30_RangeStream ==
    (returned.op = "stream" /\ call.request.range # Null) =>
        LET S == call.request.file_size
            m == split(call.request.range)
            r == call.response
            suffix == m[1] = <<>>
            lo == IF suffix THEN S - ToInt(m[2]) ELSE ToInt(m[1])
            hi == IF suffix \/ m[2] = <<>> \/ ToInt(m[2]) >= S THEN S - 1 ELSE ToInt(m[2])
        IN (0 <= lo /\ lo <= hi) =>
              /\ r.status = 206
              /\ r.body = Bytes(lo, hi)
              /\ r.content_length = Len(r.body)
              /\ r.content_range = [start |-> lo, end |-> hi, size |-> S]

\* C31: once a worker has ended, neither registry holds an entry for it: no
\* finished future is stored in download_tasks and no process of an ended worker
\* is stored in processes.
C31_RegistryCleared ==
    /\ \A k \in TaskKeys : download_tasks[k] # Ended
    /\ \A m \in DOMAIN processes :
          processes[m] # 0 => wpc[processes[m]] # "free"

\* The step is worker w's write of done: at the end of the output with exit code
\* 0, or at the "already downloaded" line.
WritesDone(w) == wpc[w] = "reading" /\ wpc'[w] = "wroteDone"

\* C32: when a URL worker writes done to a row that holds the bytes and the
\* non-zero total of a progress line, the row then has progress 100, speed 0 and
\* downloaded_bytes equal to total_bytes.
C32_DoneRecordFull ==
    [][\A w \in Slots :
          LET m == wargs[w].message_id
          IN (WritesDone(w) /\ store[m].downloaded_bytes # 0
                            /\ store[m].total_bytes # 0) =>
                /\ store'[m].status = "done"
                /\ store'[m].progress = 100
                /\ store'[m].speed = 0
                /\ store'[m].downloaded_bytes = store'[m].total_bytes]_vars

\* C33: a worker that has received no cancellation and finds its subprocess
\* killed by another actor writes status failed (not stopped) with speed 0, and
\* ends by emitting status(failed).
C33_ExternalKillFails ==
    [][\A w \in Slots :
          LET m == wargs[w].message_id
          IN /\ (wpc[w] = "reading" /\ wproc[w] = "exitExt" /\ wcancel[w] = "no"
                 /\ wpc'[w] # "reading") =>
                   /\ wpc'[w] = "wroteFailed"
                   /\ store'[m].status = "failed"
                   /\ store'[m].speed = 0
             /\ (wpc[w] = "wroteFailed" /\ wproc[w] = "exitExt" /\ WorkerEnds(w)) =>
                   emitted' = StatusEvent(m, "failed")]_vars

\* C33 witness: the subprocess of a worker that had written a progress line
\* (speed 512) was killed by another actor while no stop was requested; the
\* worker has written failed with speed 0 and its status event is next.
C33_Witness ==
    \E w \in Slots :
        /\ wpc[w] = "wroteFailed" /\ wproc[w] = "exitExt" /\ wcancel[w] = "no"
        /\ store[UrlMid].status = "failed" /\ store[UrlMid].speed = 0
        /\ store[UrlMid].progress = 50
        /\ store[UrlMid].error = "Download failed"

\* The step is a call of update_download_by_message_id.
Updated == ~call.answered /\ call'.answered /\ call.request.op = "update"

\* C34: an update on an existing row changes exactly the columns named in the
\* patch, to the values of the patch, and leaves every other column of that row
\* and every other row as they were; an update on a message_id with no row
\* changes nothing and returns None.
C34_SparseTotalUpdate ==
    [][Updated =>
          LET mid == msg_id(call.request.message_id)
              patch == call.request.patch
          IN /\ DOMAIN store' = DOMAIN store
             /\ \A m \in DOMAIN store : \A c \in DOMAIN store[m] :
                   store'[m][c] = IF m = mid /\ c \in DOMAIN patch THEN patch[c]
                                  ELSE store[m][c]
             /\ (mid \notin DOMAIN store) => (store' = store /\ call'.response = <<>>)
             /\ (mid \in DOMAIN store) => call'.response = <<store'[mid]>>]_vars

\* C34 witness: the stopped patch was applied to the chat row while the table
\* also holds the URL row; the chat row is stopped with speed 0 and keeps the
\* progress and bytes of its progress line, and the URL row is still failed.
C34_Witness ==
    /\ call.answered /\ call.request.op = "update"
    /\ call.request.message_id = IntKey(ChatMsgId)
    /\ call.request.patch = StoppedPatch
    /\ ChatMid \in Rows /\ UrlMid \in Rows
    /\ store[ChatMid].status = "stopped" /\ store[ChatMid].speed = 0
    /\ store[ChatMid].progress = 50 /\ store[ChatMid].downloaded_bytes = 1024
    /\ store[UrlMid].status = "failed"
    /\ call.response = <<store[ChatMid]>>

\* Positions of the chat worker (safe_download).
ChatPcs == {"c_reply", "c_download", "c_sleep", "c_editing", "c_wroteDone",
            "c_wroteFailed", "c_wroteStopped"}

\* Job m has a worker: a scheduled or running download coroutine called with m,
\* or the safe_download task of the chat job.
LiveWorker(m) ==
    IF m = ChatMid THEN wpc[ChatSlot] \in ChatPcs
    ELSE \E w \in Slots : wpc[w] # "free" /\ wargs[w].message_id = m

\* Job m is stored as downloading, is not deleted, and has no worker.
Orphan(m) ==
    /\ m \in Rows
    /\ ~store[m].is_deleted
    /\ store[m].status = "downloading"
    /\ ~LiveWorker(m)

\* C35: a job that is downloading with no worker does not stay so for ever: it
\* gets a worker, a terminal status, or is deleted.
C35_NoOrphanForever == \A m \in Mids : Orphan(m) ~> ~Orphan(m)

\* C36: the step that ends a URL worker leaves the registry entries of another
\* worker of the same message_id in place: a process another worker spawned stays
\* in processes, and a future of another worker stays in download_tasks.
C36_CleanupOwnEntries ==
    [][\A w \in Slots :
          (WorkerEnds(w) /\ wargs[w].message_id \in DOMAIN processes) =>
             LET m == wargs[w].message_id
             IN /\ processes[m] \in Slots \ {w} => processes'[m] = processes[m]
                /\ download_tasks[StrKey(m)] \in Slots \ {w} =>
                      download_tasks'[StrKey(m)] = download_tasks[StrKey(m)]]_vars

\* C37: the write of a stop leaves the status and the progress of a row that is
\* not downloading as they were, and a stop for a message_id with no row emits
\* no status(stopped).
C37_StopOnlyDownloading ==
    [][\A t \in Threads :
          LET mid == threads[t].message_id
          IN /\ (threads[t].op = "stop" /\ threads[t].pc = "write"
                 /\ threads'[t].pc = "emit" /\ mid \in Rows
                 /\ store[mid].status # "downloading") =>
                   /\ store'[mid].status = store[mid].status
                   /\ store'[mid].progress = store[mid].progress
             /\ (threads[t].op = "stop" /\ threads[t].pc = "emit"
                 /\ threads'[t] = Idle /\ mid \notin Rows) =>
                   ~(emitted'.topic = "status" /\ emitted'.status = "stopped")]_vars

\* C38: a cancelled worker does not write stopped over the downloading status of
\* a row while another worker of the same message_id, not cancelled, is scheduled
\* or running.
C38_NoLateTerminalWrite ==
    [][\A w \in Slots :
          (wcancel'[w] = "delivered" /\ wpc[w] # "wroteStopped"
           /\ wpc'[w] = "wroteStopped") =>
             LET m == wargs[w].message_id
             IN ~(/\ store[m].status = "downloading"
                  /\ \E v \in Slots \ {w} :
                        /\ wpc[v] \in {"scheduled"} \cup Awaiting
                        /\ wcancel[v] = "no"
                        /\ wargs[v].message_id = m)]_vars

\* C39: a progress callback of a chat job, with a known size, whose own last
\* progress event is at least 1 second old (the event on the bus that is less
\* than 1 second old, if there is one, belongs to another job) emits a progress
\* event for that job.
C39_ThrottlePerJob ==
    [][\A w \in ChatSlots :
          (received'.slot = w /\ ~Unsized(received'.info) /\ fresh # w) =>
             /\ emitted'.topic = "progress"
             /\ emitted'.message_id = ChatJob(w)]_vars

\* C40: a progress callback of the chat worker with total = 0 does not end the
\* attempt: the worker stays in download_media, no error is written, and the row
\* keeps progress 0 and pending_time null.
C40_UnknownSizeTolerated ==
    [][(Receives /\ received'.slot = ChatSlot /\ Unsized(received'.info)) =>
          /\ wpc'[ChatSlot] = "c_download"
          /\ store'[ChatMid].error = store[ChatMid].error
          /\ store'[ChatMid].progress = 0
          /\ store'[ChatMid].pending_time = NoNum]_vars

====
